---- MODULE Spec2Model ----
(***************************************************************************)
(* A model of the SDGP project chatbot: the summary cache                  *)
(* (ai_summary_manager.py: AISummaryManager) with its two backing files,   *)
(* and the query path of the chatbot (enhanced_ai_chatbot.py:              *)
(* _get_context_for_query) that scores, ranks and renders records.         *)
(*                                                                         *)
(* Python values are modelled as follows.  A dict is a function whose      *)
(* domain is its key set (d.get(k, dflt) is Get(d, k, dflt)); a list is a  *)
(* sequence; a str is a string; None is the value PyNone.  An md5 digest   *)
(* is the value Md5(x): two digests are equal exactly when the digested    *)
(* texts are, and no digest is the empty string EmptyStr.                  *)
(***************************************************************************)
EXTENDS Integers, Sequences, FiniteSets, TLC

VARIABLES
    project_data,    \* EnhancedSDGPAIChatbot.project_data: the loaded records
    summaries,       \* AISummaryManager.summaries: id -> summary text
    metadata,        \* AISummaryManager.metadata: id -> {hash, created_at, title}
    summaries_file,  \* the file project_summaries.json in the cache directory
    metadata_file,   \* the file metadata.json in the cache directory
    now,             \* the wall clock read by datetime.now()
    faults,          \* the number of file-system failures so far
    conversation_history,  \* EnhancedSDGPAIChatbot.conversation_history: a deque
    turns,           \* history: every exchange added to the conversation, in order
    streaming,       \* the chat_streaming call: its locals, the indicator thread
    put_ids,         \* history: ids the cache holds by load or put since the last clear
    last_put,        \* history: id -> the last put for id on this cache since the last clear
    last             \* history: the last operation, its arguments and its outcome

vars == <<project_data, summaries, metadata, summaries_file, metadata_file,
          now, faults, conversation_history, turns, streaming, put_ids, last_put,
          last>>

----------------------------------------------------------------------------
(* Python values *)

\* None
PyNone == [py_none |-> TRUE]

IsNone(x) == "py_none" \in DOMAIN x

\* {} : the dict without keys
EmptyDict == [k \in {} |-> ""]

\* d.get(k, dflt)
Get(d, k, dflt) == IF k \in DOMAIN d THEN d[k] ELSE dflt

\* bool(d) of a dict or None: None and {} are falsy
Truthy(d) == ~IsNone(d) /\ DOMAIN d # {}

\* the str '' where a digest is expected
EmptyStr == [hex |-> ""]

\* hashlib.md5(text.encode()).hexdigest(): a 32 character digest, never ''
Md5(text) == [hex |-> "md5", of |-> text]

\* json.dumps(data, sort_keys=True): the canonical text of data.  The dicts
\* digested hold only str, int and list values under fixed keys, on which the
\* text determines the value and the value the text.
JsonDumps(data) == [json |-> data]

----------------------------------------------------------------------------
(* str operations *)

\* str.lower(), character by character, on the letters
LowerMap ==
    [A |-> "a", B |-> "b", C |-> "c", D |-> "d", E |-> "e", F |-> "f", G |-> "g",
     H |-> "h", I |-> "i", J |-> "j", K |-> "k", L |-> "l", M |-> "m", N |-> "n",
     O |-> "o", P |-> "p", Q |-> "q", R |-> "r", S |-> "s", T |-> "t", U |-> "u",
     V |-> "v", W |-> "w", X |-> "x", Y |-> "y", Z |-> "z"]

\* the character at position i of s, as a one-character string
CharAt(s, i) == SubSeq(s, i, i)

\* the characters str.lower() changes
UpperLetters == DOMAIN LowerMap

\* one character of str.lower()
LowerChar(c) == IF c \in UpperLetters THEN LowerMap[c] ELSE c

\* s[i-1:].lower()
RECURSIVE LowerFrom(_, _)
LowerFrom(s, i) ==
    IF i > Len(s) THEN ""
    ELSE LowerChar(CharAt(s, i)) \o LowerFrom(s, i + 1)

\* s.lower()
Lower(s) == LowerFrom(s, 1)

\* w in t, for two str
IsSub(w, t) ==
    \E i \in 1..(Len(t) - Len(w) + 1) : SubSeq(t, i, i + Len(w) - 1) = w

\* str.isspace() of one character
IsSpace(c) == c = " "

\* s.split(): the maximal runs of non-whitespace characters of s, in order.
\* cur is the run being read.
RECURSIVE SplitFrom(_, _)
SplitFrom(s, cur) ==
    IF s = "" THEN (IF cur = "" THEN <<>> ELSE <<cur>>)
    ELSE IF IsSpace(CharAt(s, 1))
         THEN (IF cur = "" THEN <<>> ELSE <<cur>>) \o SplitFrom(SubSeq(s, 2, Len(s)), "")
         ELSE SplitFrom(SubSeq(s, 2, Len(s)), cur \o CharAt(s, 1))

Split(s) == SplitFrom(s, "")

\* [f(x) for x in xs]
LowerAll(xs) == [i \in 1..Len(xs) |-> Lower(xs[i])]

\* sep.join(xs)
RECURSIVE Join(_, _)
Join(sep, xs) ==
    IF Len(xs) = 0 THEN ""
    ELSE IF Len(xs) = 1 THEN xs[1]
    ELSE xs[1] \o sep \o Join(sep, Tail(xs))

----------------------------------------------------------------------------
(* AISummaryManager: the fingerprint *)

RECURSIVE TechStackOfAnyType(_)
RECURSIVE TechStackOf(_)

\* the techStack of every association, whatever its type
TechStackOfAnyType(associations) ==
    IF Len(associations) = 0 THEN <<>>
    ELSE <<Get(Head(associations), "techStack", "")>>
         \o TechStackOfAnyType(Tail(associations))

\* [assoc.get('techStack', '') for assoc in associations
\*  if assoc.get('type') == 'PROJECT_TECH']
TechStackOf(associations) ==
    IF Len(associations) = 0 THEN <<>>
    ELSE (IF Get(Head(associations), "type", "") = "PROJECT_TECH"
          THEN <<Get(Head(associations), "techStack", "")>>
          ELSE <<>>) \o TechStackOf(Tail(associations))

\* a _hash_content that digests missing detailed content as empty content
HashContentAbsentAsEmpty(detailed_info) ==
    LET content == IF ~Truthy(detailed_info) \/ "content" \notin DOMAIN detailed_info
                   THEN EmptyDict ELSE detailed_info["content"]
        details == Get(content, "projectDetails", EmptyDict)
        content_data ==
            [problem_statement |-> Get(details, "problem_statement", ""),
             solution |-> Get(details, "solution", ""),
             features |-> Get(details, "features", ""),
             team_size |-> Len(Get(content, "team", <<>>)),
             tech_stack |-> TechStackOf(Get(content, "associations", <<>>))]
    IN Md5(JsonDumps(content_data))

\* _hash_content
HashContent(detailed_info) ==
    IF ~Truthy(detailed_info) \/ "content" \notin DOMAIN detailed_info
    THEN EmptyStr
    ELSE LET content == detailed_info["content"]
             details == Get(content, "projectDetails", EmptyDict)
             content_data ==
                 [problem_statement |-> Get(details, "problem_statement", ""),
                  solution |-> Get(details, "solution", ""),
                  features |-> Get(details, "features", ""),
                  team_size |-> Len(Get(content, "team", <<>>)),
                  tech_stack |-> TechStackOf(Get(content, "associations", <<>>))]
         IN Md5(JsonDumps(content_data))

\* a _generate_project_hash that digests the domains without their order
GenerateProjectHashAnyOrder(project) ==
    LET basic_info == Get(project, "basic_info", EmptyDict)
        detailed_info == Get(project, "detailed_info", EmptyDict)
        hash_data ==
            [title |-> Get(basic_info, "title", ""),
             subtitle |-> Get(basic_info, "subtitle", ""),
             status |-> Get(basic_info, "status", ""),
             domains |-> {Get(basic_info, "domains", <<>>)[k] :
                            k \in DOMAIN Get(basic_info, "domains", <<>>)},
             projectTypes |-> Get(basic_info, "projectTypes", <<>>),
             year |-> Get(basic_info, "year", ""),
             updated_at |-> Get(basic_info, "updatedAt", ""),
             content_hash |-> HashContent(detailed_info)]
    IN Md5(JsonDumps(hash_data))

\* _generate_project_hash
GenerateProjectHash(project) ==
    LET basic_info == Get(project, "basic_info", EmptyDict)
        detailed_info == Get(project, "detailed_info", EmptyDict)
        hash_data ==
            [title |-> Get(basic_info, "title", ""),
             subtitle |-> Get(basic_info, "subtitle", ""),
             status |-> Get(basic_info, "status", ""),
             domains |-> Get(basic_info, "domains", <<>>),
             projectTypes |-> Get(basic_info, "projectTypes", <<>>),
             year |-> Get(basic_info, "year", ""),
             updated_at |-> Get(basic_info, "updatedAt", ""),
             content_hash |-> HashContent(detailed_info)]
    IN Md5(JsonDumps(hash_data))

----------------------------------------------------------------------------
(* AISummaryManager: the cache *)

\* the outcome of get_summary: None, or the cached str
Miss == [hit |-> FALSE, summary |-> ""]

Hit(s) == [hit |-> TRUE, summary |-> s]

\* a dict assignment that leaves an existing key as it is
UpsertKeepOld(d, k, v) == [x \in DOMAIN d \cup {k} |-> IF x \in DOMAIN d THEN d[x] ELSE v]

\* d[k] = v on a dict
Upsert(d, k, v) == [x \in DOMAIN d \cup {k} |-> IF x = k THEN v ELSE d[x]]

\* a get_summary that returns whatever is stored for the id, whatever the
\* record
GetSummaryInNoCheck(sums, meta, project_id, project) ==
    IF project_id \notin DOMAIN sums THEN Miss ELSE Hit(sums[project_id])

\* a get_summary that also drops an entry created before the present tick,
\* as a cache with an expiry time would
GetSummaryInExpiring(sums, meta, project_id, project) ==
    IF project_id \notin DOMAIN sums THEN Miss
    ELSE IF GenerateProjectHash(project)
              # Get(Get(meta, project_id, EmptyDict), "hash", EmptyStr) THEN Miss
    ELSE IF meta[project_id].created_at < now THEN Miss
    ELSE Hit(sums[project_id])

\* get_summary, on the maps sums and meta
GetSummaryIn(sums, meta, project_id, project) ==
    IF project_id \notin DOMAIN sums THEN Miss
    ELSE LET current_hash == GenerateProjectHash(project)
             cached_hash == Get(Get(meta, project_id, EmptyDict), "hash", EmptyStr)
         IN IF current_hash # cached_hash THEN Miss
            ELSE Hit(sums[project_id])

\* get_summary of this cache
GetSummary(project_id, project) ==
    GetSummaryIn(summaries, metadata, project_id, project)

\* a backing file: absent, holding the JSON text of obj, or holding text that
\* json.load rejects (a dump cut short by a failed write)
FileAbsent == [kind |-> "absent"]

FileCorrupt == [kind |-> "corrupt"]

FileJson(obj) == [kind |-> "json", obj |-> obj]

\* the points of _save_summaries at which the file system can raise: opening
\* either file for writing (the file is left as it was) and dumping into it
\* (the file is left cut short)
SaveFaults == {"none", "s_open", "s_write", "m_open", "m_write"}

\* a _save_summaries that lets the exception of a failed write through
SaveSummariesUncaught(sums, meta, sfile, mfile, fault) ==
    [sfile |-> IF fault = "s_open" THEN sfile
               ELSE IF fault = "s_write" THEN FileCorrupt ELSE FileJson(sums),
     mfile |-> IF fault = "none" THEN FileJson(meta)
               ELSE IF fault = "m_write" THEN FileCorrupt ELSE mfile,
     raised |-> fault # "none",
     logged |-> IF fault = "none" THEN "info" ELSE "error"]

\* a _save_summaries that writes the summaries file alone
SaveSummariesNoMetadata(sums, meta, sfile, mfile, fault) ==
    [sfile |-> IF fault = "s_open" THEN sfile
               ELSE IF fault = "s_write" THEN FileCorrupt ELSE FileJson(sums),
     mfile |-> mfile,
     raised |-> FALSE,
     logged |-> IF fault = "none" THEN "info" ELSE "error"]

\* _save_summaries: the two files afterwards, and whether it raises to its
\* caller.  Every exception is caught and logged.
SaveSummaries(sums, meta, sfile, mfile, fault) ==
    CASE fault = "s_open" ->
           [sfile |-> sfile, mfile |-> mfile, raised |-> FALSE, logged |-> "error"]
      [] fault = "s_write" ->
           [sfile |-> FileCorrupt, mfile |-> mfile, raised |-> FALSE, logged |-> "error"]
      [] fault = "m_open" ->
           [sfile |-> FileJson(sums), mfile |-> mfile, raised |-> FALSE, logged |-> "error"]
      [] fault = "m_write" ->
           [sfile |-> FileJson(sums), mfile |-> FileCorrupt, raised |-> FALSE,
            logged |-> "error"]
      [] OTHER ->
           [sfile |-> FileJson(sums), mfile |-> FileJson(meta), raised |-> FALSE,
            logged |-> "info"]

\* store_summary: the maps and files afterwards, and whether it raises
StoreSummary(sums, meta, sfile, mfile, clock, project_id, project, summary, fault) ==
    LET sums1 == Upsert(sums, project_id, summary)
        meta1 == Upsert(meta, project_id,
                        [hash |-> GenerateProjectHash(project),
                         created_at |-> clock,
                         title |-> Get(Get(project, "basic_info", EmptyDict),
                                       "title", "Unknown")])
        saved == SaveSummaries(sums1, meta1, sfile, mfile, fault)
    IN [summaries |-> sums1, metadata |-> meta1,
        sfile |-> saved.sfile, mfile |-> saved.mfile, raised |-> saved.raised]

\* a _load_summaries that keeps what it loaded before json.load raised
LoadSummariesKeepLoaded(sfile, mfile) ==
    [summaries |-> IF sfile.kind = "json" THEN sfile.obj ELSE EmptyDict,
     metadata |-> IF sfile.kind # "corrupt" /\ mfile.kind = "json" THEN mfile.obj
                  ELSE EmptyDict,
     raised |-> FALSE,
     logged |-> IF sfile.kind = "corrupt" \/ mfile.kind = "corrupt" THEN "warning"
                ELSE "info"]

\* _load_summaries, called by __init__ on the maps {} and {}: the maps
\* afterwards, and whether it raises.  json.load raising on either file is
\* caught and resets both maps.
LoadSummaries(sfile, mfile) ==
    LET loaded_s == IF sfile.kind = "json" THEN sfile.obj ELSE EmptyDict
        loaded_m == IF mfile.kind = "json" THEN mfile.obj ELSE EmptyDict
    IN IF sfile.kind = "corrupt" \/ mfile.kind = "corrupt"
       THEN [summaries |-> EmptyDict, metadata |-> EmptyDict, raised |-> FALSE,
             logged |-> "warning"]
       ELSE [summaries |-> loaded_s, metadata |-> loaded_m, raised |-> FALSE,
             logged |-> "info"]

\* the points of clear_cache at which os.remove can raise; a file is removed
\* only if it exists
ClearFaultKinds == {"none", "s_remove", "m_remove"}

\* os.remove is called, and so may fail, only for a file that exists
ClearFaults(sfile, mfile) ==
    {"none"} \cup (IF sfile.kind # "absent" THEN {"s_remove"} ELSE {})
             \cup (IF mfile.kind # "absent" THEN {"m_remove"} ELSE {})

\* a clear_cache that empties the maps and leaves the files
ClearCacheKeepFiles(sfile, mfile, fault) ==
    [summaries |-> EmptyDict, metadata |-> EmptyDict, sfile |-> sfile, mfile |-> mfile,
     raised |-> FALSE, logged |-> "info"]

\* clear_cache: the maps and files afterwards, and whether it raises
ClearCache(sfile, mfile, fault) ==
    [summaries |-> EmptyDict, metadata |-> EmptyDict,
     sfile |-> IF fault = "s_remove" THEN sfile ELSE FileAbsent,
     mfile |-> IF fault \in {"s_remove", "m_remove"} THEN mfile ELSE FileAbsent,
     raised |-> FALSE,
     logged |-> IF fault = "none" THEN "info" ELSE "error"]

\* datetime.now().isoformat()[:10] of a stored created_at: the day of the tick
IsoDate(created_at) == created_at

\* get_summary_stats: total_summaries and creation_dates (cache_size_mb, the
\* rounded size of the summaries file, is left out)
GetSummaryStats(sums, meta) ==
    LET dates == {IsoDate(meta[i].created_at) : i \in DOMAIN meta}
    IN [total_summaries |-> Cardinality(DOMAIN sums),
        creation_dates |->
            [d \in dates |-> Cardinality({i \in DOMAIN meta :
                                             IsoDate(meta[i].created_at) = d})]]

----------------------------------------------------------------------------
(* EnhancedSDGPAIChatbot: scoring and ranking of _get_context_for_query *)

\* f'project_{i}': the placeholder id of the record at 0-based position i
PlaceholderId(i) == "project_" \o ToString(i)

\* any(word in x for x in xs)
AnySub(word, xs) == \E k \in 1..Len(xs) : IsSub(word, xs[k])

\* any(x in terms for x in xs)
AnyIn(xs, terms) == \E k \in 1..Len(xs) : xs[k] \in terms

\* a loop body that matches a word against a whole tag, not inside it
WordScoreWholeTag(word, title, subtitle, problem, solution, features, domains, project_types) ==
      (IF IsSub(word, title) THEN 10 ELSE 0)
    + (IF IsSub(word, subtitle) THEN 8 ELSE 0)
    + (IF IsSub(word, problem) THEN 6 ELSE 0)
    + (IF IsSub(word, solution) THEN 6 ELSE 0)
    + (IF IsSub(word, features) THEN 4 ELSE 0)
    + (IF AnyIn(domains, {word}) THEN 7 ELSE 0)
    + (IF AnyIn(project_types, {word}) THEN 7 ELSE 0)

\* a loop body that does not look at problem, solution and features
WordScoreNoDetails(word, title, subtitle, problem, solution, features, domains, project_types) ==
      (IF IsSub(word, title) THEN 10 ELSE 0)
    + (IF IsSub(word, subtitle) THEN 8 ELSE 0)
    + (IF AnySub(word, domains) THEN 7 ELSE 0)
    + (IF AnySub(word, project_types) THEN 7 ELSE 0)

\* the body of the loop over query_words
WordScore(word, title, subtitle, problem, solution, features, domains, project_types) ==
      (IF IsSub(word, title) THEN 10 ELSE 0)
    + (IF IsSub(word, subtitle) THEN 8 ELSE 0)
    + (IF IsSub(word, problem) THEN 6 ELSE 0)
    + (IF IsSub(word, solution) THEN 6 ELSE 0)
    + (IF IsSub(word, features) THEN 4 ELSE 0)
    + (IF AnySub(word, domains) THEN 7 ELSE 0)
    + (IF AnySub(word, project_types) THEN 7 ELSE 0)

\* for word in query_words: ..., from the score so far
RECURSIVE DirectScore(_, _, _, _, _, _, _, _, _)
DirectScore(score, words, title, subtitle, problem, solution, features, domains, project_types) ==
    IF Len(words) = 0 THEN score
    ELSE DirectScore(score + WordScore(Head(words), title, subtitle, problem, solution,
                                       features, domains, project_types),
                     Tail(words), title, subtitle, problem, solution, features,
                     domains, project_types)

\* domain-specific blocks that ask for the query to be the keyword
DomainScoreWholeQuery(query_lower, problem, domains) ==
      (IF query_lower \in {"health", "medical"}
       THEN (IF AnyIn(domains, {"healthcare", "medical", "health"}) THEN 15 ELSE 0)
          + (IF IsSub("health", problem) \/ IsSub("medical", problem) THEN 10 ELSE 0)
       ELSE 0)
    + (IF query_lower \in {"education", "edtech"}
       THEN (IF AnyIn(domains, {"education", "edtech", "learning"}) THEN 15 ELSE 0)
          + (IF IsSub("education", problem) \/ IsSub("learning", problem) THEN 10 ELSE 0)
       ELSE 0)
    + (IF query_lower \in {"ai", "artificial intelligence"}
       THEN (IF AnyIn(domains, {"ai", "artificial intelligence", "machine learning"})
             THEN 15 ELSE 0)
          + (IF IsSub("ai", problem) \/ IsSub("intelligence", problem) THEN 10 ELSE 0)
       ELSE 0)

\* the three domain-specific blocks
DomainScore(query_lower, problem, domains) ==
      (IF IsSub("health", query_lower) \/ IsSub("medical", query_lower)
       THEN (IF AnyIn(domains, {"healthcare", "medical", "health"}) THEN 15 ELSE 0)
          + (IF IsSub("health", problem) \/ IsSub("medical", problem) THEN 10 ELSE 0)
       ELSE 0)
    + (IF IsSub("education", query_lower) \/ IsSub("edtech", query_lower)
       THEN (IF AnyIn(domains, {"education", "edtech", "learning"}) THEN 15 ELSE 0)
          + (IF IsSub("education", problem) \/ IsSub("learning", problem) THEN 10 ELSE 0)
       ELSE 0)
    + (IF IsSub("ai", query_lower) \/ IsSub("artificial intelligence", query_lower)
       THEN (IF AnyIn(domains, {"ai", "artificial intelligence", "machine learning"})
             THEN 15 ELSE 0)
          + (IF IsSub("ai", problem) \/ IsSub("intelligence", problem) THEN 10 ELSE 0)
       ELSE 0)

\* the score of the extracted, lowercased fields
RelevanceScore(query_lower, query_words, title, subtitle, problem, solution, features, domains, project_types) ==
    DirectScore(0, query_words, title, subtitle, problem, solution, features, domains,
                project_types)
    + DomainScore(query_lower, problem, domains)

\* project.get('detailed_info', {}).get('content', {}): raises AttributeError
\* when the record holds 'detailed_info': None
ExtractRaises(project) ==
    "basic_info" \in DOMAIN project
    /\ IsNone(Get(project, "detailed_info", EmptyDict))

\* content.get('projectDetails', {}) of a record whose extraction does not raise
ProjectDetails(project) ==
    Get(Get(Get(project, "detailed_info", EmptyDict), "content", EmptyDict),
        "projectDetails", EmptyDict)

\* the score the loop body computes for one record
ScoreOf(query_lower, query_words, project) ==
    LET basic_info == project["basic_info"]
        project_details == ProjectDetails(project)
    IN RelevanceScore(query_lower, query_words,
                      Lower(Get(basic_info, "title", "")),
                      Lower(Get(basic_info, "subtitle", "")),
                      Lower(Get(project_details, "problem_statement", "")),
                      Lower(Get(project_details, "solution", "")),
                      Lower(Get(project_details, "features", "")),
                      LowerAll(Get(basic_info, "domains", <<>>)),
                      LowerAll(Get(basic_info, "projectTypes", <<>>)))

\* an assignment that moves a key already present to the end of the dict
DictSetMoveToEnd(items, project_id, score, pos) ==
    Append(SelectSeq(items, LAMBDA item : item.project_id # project_id),
           [project_id |-> project_id, score |-> score, pos |-> pos])

\* project_scores[project_id] = (score, pos) on the insertion-ordered dict
\* project_scores, kept as the sequence of its items: a key already present
\* keeps its place and takes the new value
DictSet(items, project_id, score, pos) ==
    IF \E k \in 1..Len(items) : items[k].project_id = project_id
    THEN [k \in 1..Len(items) |->
            IF items[k].project_id = project_id
            THEN [project_id |-> project_id, score |-> score, pos |-> pos]
            ELSE items[k]]
    ELSE Append(items, [project_id |-> project_id, score |-> score, pos |-> pos])

\* a loop that keeps every scored record, whatever its score
AddIfRelevantAny(items, project_id, score, pos) == DictSet(items, project_id, score, pos)

\* if score > 0: project_scores[project_id] = (score, project)
AddIfRelevant(items, project_id, score, pos) ==
    IF score > 0 THEN DictSet(items, project_id, score, pos) ELSE items

\* the loop over enumerate(self.project_data), from position pos (1-based) on:
\* the items of project_scores.  A record is named by its position.
RECURSIVE ProjectScores(_, _, _, _, _)
ProjectScores(data, query_lower, query_words, pos, items) ==
    IF pos > Len(data) THEN items
    ELSE IF "basic_info" \notin DOMAIN data[pos]
         THEN ProjectScores(data, query_lower, query_words, pos + 1, items)
         ELSE ProjectScores(data, query_lower, query_words, pos + 1,
                            AddIfRelevant(items,
                                          Get(data[pos]["basic_info"], "id",
                                              PlaceholderId(pos - 1)),
                                          ScoreOf(query_lower, query_words, data[pos]),
                                          pos))

\* an insertion that puts an item before the items of its score
RECURSIVE InsertBeforeEqual(_, _)
InsertBeforeEqual(sorted, item) ==
    IF Len(sorted) = 0 THEN <<item>>
    ELSE IF Head(sorted).score > item.score
         THEN <<Head(sorted)>> \o InsertBeforeEqual(Tail(sorted), item)
         ELSE <<item>> \o sorted

\* sorted(items, key=score, reverse=True): a stable sort, by insertion
RECURSIVE InsertByScore(_, _)
InsertByScore(sorted, item) ==
    IF Len(sorted) = 0 THEN <<item>>
    ELSE IF Head(sorted).score >= item.score
         THEN <<Head(sorted)>> \o InsertByScore(Tail(sorted), item)
         ELSE <<item>> \o sorted

RECURSIVE SortedByScore(_)
SortedByScore(items) ==
    IF Len(items) = 0 THEN <<>>
    ELSE InsertByScore(SortedByScore(SubSeq(items, 1, Len(items) - 1)),
                       items[Len(items)])

\* a slice that cuts nothing
TakeAll(xs, n) == xs

\* xs[:n]
Take(xs, n) == SubSeq(xs, 1, IF Len(xs) < n THEN Len(xs) ELSE n)

\* the scoring loop of a query, given query_lower
ScoresOfLowered(data, query_lower) ==
    ProjectScores(data, query_lower, Split(query_lower), 1, <<>>)

\* relevant_projects: the records of sorted_projects[:10], by position
RelevantProjects(data, query) ==
    Take(SortedByScore(ScoresOfLowered(data, Lower(query))), 10)

----------------------------------------------------------------------------
(* EnhancedSDGPAIChatbot: summaries and the rendered context *)

\* s.strip(), on spaces
RECURSIVE StripLeft(_)
StripLeft(s) ==
    IF s # "" /\ IsSpace(CharAt(s, 1)) THEN StripLeft(SubSeq(s, 2, Len(s))) ELSE s

RECURSIVE StripRight(_)
StripRight(s) ==
    IF s # "" /\ IsSpace(CharAt(s, Len(s))) THEN StripRight(SubSeq(s, 1, Len(s) - 1))
    ELSE s

Strip(s) == StripRight(StripLeft(s))

\* what self.model.generate_content does on one call: it raises, or it
\* answers with a text
GenOutcomes == {"fail", "ok"}

\* response.text of an answer about the record titled title
GeneratedText(title) == " Summary of " \o title \o " "

\* response.text of an answer that holds whitespace only
BlankText == "  "

\* a _create_project_summary without the fallback: '' when the call fails
CreateProjectSummaryNoFallback(project, gen) ==
    LET basic_info == Get(project, "basic_info", EmptyDict)
        title == Get(basic_info, "title", "Unknown")
    IN IF gen = "ok" THEN Strip(GeneratedText(title))
       ELSE IF gen = "blank" THEN Strip(BlankText)
       ELSE ""

\* _create_project_summary under the outcome gen of the generator call: an
\* answer ("ok"), an answer of whitespace ("blank"), or an exception
CreateProjectSummary(project, gen) ==
    LET basic_info == Get(project, "basic_info", EmptyDict)
        title == Get(basic_info, "title", "Unknown")
        subtitle == Get(basic_info, "subtitle", "")
        domains == Get(basic_info, "domains", <<>>)
        project_types == Get(basic_info, "projectTypes", <<>>)
    IN IF gen = "ok" THEN Strip(GeneratedText(title))
       ELSE IF gen = "blank" THEN Strip(BlankText)
       ELSE title \o ": " \o subtitle \o " - A " \o Join(", ", project_types)
            \o " project in " \o Join(", ", domains) \o " domains."

\* a pass that creates and stores a summary for every record, cached or not
PassStepAlways(st, project, pos, gen, clock) ==
    LET project_id == Get(project["basic_info"], "id", PlaceholderId(pos - 1))
        cached == GetSummaryIn(st.summaries, st.metadata, project_id, project)
        summary == CreateProjectSummary(project, gen)
        r == StoreSummary(st.summaries, st.metadata, st.sfile, st.mfile, clock,
                          project_id, project, summary, "none")
    IN [summaries |-> r.summaries, metadata |-> r.metadata,
        sfile |-> r.sfile, mfile |-> r.mfile,
        log |-> Append(st.log, [pos |-> pos, project_id |-> project_id, got |-> cached,
                                generated |-> TRUE, gen |-> gen, summary |-> summary])]

\* the body of the loop of _generate_project_summaries for a record that has
\* basic_info and detailed_info, at position pos (from 1): the cache and
\* its files afterwards, and the log of what was done
PassStep(st, project, pos, gen, clock) ==
    LET project_id == Get(project["basic_info"], "id", PlaceholderId(pos - 1))
        cached == GetSummaryIn(st.summaries, st.metadata, project_id, project)
    IN IF cached.hit /\ cached.summary # ""
       THEN [st EXCEPT !.log = Append(@, [pos |-> pos, project_id |-> project_id,
                                          got |-> cached, generated |-> FALSE,
                                          gen |-> "none", summary |-> cached.summary])]
       ELSE LET summary == CreateProjectSummary(project, gen)
                r == StoreSummary(st.summaries, st.metadata, st.sfile, st.mfile, clock,
                                  project_id, project, summary, "none")
            IN [summaries |-> r.summaries, metadata |-> r.metadata,
                sfile |-> r.sfile, mfile |-> r.mfile,
                log |-> Append(st.log, [pos |-> pos, project_id |-> project_id,
                                        got |-> cached, generated |-> TRUE,
                                        gen |-> gen, summary |-> summary])]

\* _generate_project_summaries from position pos on; gens[k] is the outcome
\* of the generator call for the record at position k
RECURSIVE GenerateProjectSummaries(_, _, _, _, _)
GenerateProjectSummaries(data, pos, st, gens, clock) ==
    IF pos > Len(data) THEN st
    ELSE IF "basic_info" \in DOMAIN data[pos] /\ "detailed_info" \in DOMAIN data[pos]
    THEN GenerateProjectSummaries(data, pos + 1,
                                  PassStep(st, data[pos], pos, gens[pos], clock),
                                  gens, clock)
    ELSE GenerateProjectSummaries(data, pos + 1, st, gens, clock)

\* get_project_by_id: the position of the first record with that id, 0 for
\* None
GetProjectById(data, project_id) ==
    LET found == {k \in 1..Len(data) :
                     /\ "basic_info" \in DOMAIN data[k]
                     /\ "id" \in DOMAIN data[k]["basic_info"]
                     /\ data[k]["basic_info"]["id"] = project_id}
    IN IF found = {} THEN 0 ELSE CHOOSE k \in found : \A j \in found : k <= j

\* get_detailed_project_info: not found, an AttributeError on a record whose
\* detailed_info is None, or the analysis with the summary of the record
DetailedProjectInfo(data, sums, meta, project_id, gen) ==
    LET pos == GetProjectById(data, project_id)
    IN IF pos = 0 THEN [kind |-> "not_found", project_id |-> project_id]
       ELSE IF ExtractRaises(data[pos]) THEN [kind |-> "raised", project_id |-> project_id]
       ELSE LET cached == GetSummaryIn(sums, meta, project_id, data[pos])
            IN [kind |-> "detail", project_id |-> project_id, pos |-> pos,
                summary |-> IF cached.hit /\ cached.summary # "" THEN cached.summary
                            ELSE CreateProjectSummary(data[pos], gen),
                from_cache |-> cached.hit /\ cached.summary # ""]

\* the non-empty techStack entries of the PROJECT_TECH associations
RECURSIVE TechStackShown(_)
TechStackShown(associations) ==
    IF Len(associations) = 0 THEN <<>>
    ELSE (IF Get(Head(associations), "type", "") = "PROJECT_TECH"
             /\ Get(Head(associations), "techStack", "") # ""
          THEN <<Get(Head(associations), "techStack", "")>>
          ELSE <<>>) \o TechStackShown(Tail(associations))

\* a rendering that creates every summary on the fly, whatever the cache holds
RenderWithNoCache(project, project_id, cached, gen) ==
    [project_id |-> project_id,
     summary |-> CreateProjectSummary(project, gen),
     from_cache |-> cached.hit /\ cached.summary # ""]

\* the rendered fields of a record, given its id and the outcome of the cache
\* read; a summary of None or '' is replaced by one created on the fly
RenderWith(project, project_id, cached, gen) ==
    LET basic_info == project["basic_info"]
        content == Get(Get(project, "detailed_info", EmptyDict), "content", EmptyDict)
        project_details == Get(content, "projectDetails", EmptyDict)
        tech_stack == TechStackShown(Get(content, "associations", <<>>))
    IN [project_id |-> project_id,
        title |-> Get(basic_info, "title", "Unknown"),
        status |-> Get(basic_info, "status", "Unknown"),
        year |-> Get(basic_info, "year", "Unknown"),
        domains |-> Join(", ", Get(basic_info, "domains", <<>>)),
        project_types |-> Join(", ", Get(basic_info, "projectTypes", <<>>)),
        team_size |-> Len(Get(content, "team", <<>>)),
        tech_stack |-> IF Len(tech_stack) > 0 THEN Join(", ", tech_stack)
                       ELSE "Not specified",
        problem |-> Take(Get(project_details, "problem_statement", "Not specified"), 150),
        solution |-> Take(Get(project_details, "solution", "Not specified"), 150),
        features |-> Take(Get(project_details, "features", "Not specified"), 150),
        summary |-> IF cached.hit /\ cached.summary # "" THEN cached.summary
                    ELSE CreateProjectSummary(project, gen),
        from_cache |-> cached.hit /\ cached.summary # ""]

\* the id the rendering loop gives the record at 0-based place i of
\* relevant_projects
RenderId(project, i) == Get(project["basic_info"], "id", PlaceholderId(i))

\* one pass of the rendering loop: the record at 0-based place i of
\* relevant_projects
RenderProject(sums, meta, project, i, gen) ==
    RenderWith(project, RenderId(project, i),
               GetSummaryIn(sums, meta, RenderId(project, i), project), gen)

\* the items of domain_stats after counting the tags of domains, in order
RECURSIVE CountDomains(_, _)
CountDomains(stats, domains) ==
    IF Len(domains) = 0 THEN stats
    ELSE CountDomains(
           IF \E k \in 1..Len(stats) : stats[k].domain = Head(domains)
           THEN [k \in 1..Len(stats) |->
                   IF stats[k].domain = Head(domains)
                   THEN [domain |-> stats[k].domain, score |-> stats[k].score + 1]
                   ELSE stats[k]]
           ELSE Append(stats, [domain |-> Head(domains), score |-> 1]),
           Tail(domains))

\* the first loop of _get_comprehensive_overview from position pos on: the
\* items of domain_stats and the positions of related_projects
RECURSIVE OverviewScan(_, _, _, _, _)
OverviewScan(data, query, pos, stats, related) ==
    IF pos > Len(data) THEN [stats |-> stats, related |-> related]
    ELSE IF "basic_info" \notin DOMAIN data[pos]
         THEN OverviewScan(data, query, pos + 1, stats, related)
         ELSE LET project_details == ProjectDetails(data[pos])
                  problem == Lower(Get(project_details, "problem_statement", ""))
                  solution == Lower(Get(project_details, "solution", ""))
                  words == Split(query)
                  hit == \E k \in 1..Len(words) :
                             IsSub(words[k], problem) \/ IsSub(words[k], solution)
              IN OverviewScan(data, query, pos + 1,
                              CountDomains(stats, Get(data[pos]["basic_info"],
                                                      "domains", <<>>)),
                              IF hit THEN Append(related, pos) ELSE related)

\* the positions p of ps whose record has basic_info
RECURSIVE WithBasicInfo(_, _)
WithBasicInfo(data, ps) ==
    IF Len(ps) = 0 THEN <<>>
    ELSE (IF "basic_info" \in DOMAIN data[Head(ps)] THEN <<Head(ps)>> ELSE <<>>)
         \o WithBasicInfo(data, Tail(ps))

\* an overview that cuts neither the domains nor the related records
OverviewOfUncut(data, query, scan) ==
    [kind |-> "overview",
     query |-> query,
     total |-> Len(data),
     related |-> Len(scan.related),
     domains |-> SortedByScore(scan.stats),
     listed |-> IF Len(scan.related) > 0 THEN scan.related
                ELSE WithBasicInfo(data, Take([k \in 1..Len(data) |-> k], 5))]

\* the text of _get_comprehensive_overview, given the outcome of its first loop
OverviewOf(data, query, scan) ==
    [kind |-> "overview",
     query |-> query,
     total |-> Len(data),
     related |-> Len(scan.related),
     domains |-> Take(SortedByScore(scan.stats), 8),
     listed |-> IF Len(scan.related) > 0 THEN Take(scan.related, 5)
                ELSE WithBasicInfo(data, Take([k \in 1..Len(data) |-> k], 5))]

\* _get_comprehensive_overview
ComprehensiveOverview(data, query) ==
    OverviewOf(data, query, OverviewScan(data, query, 1, <<>>, <<>>))

\* the context of _get_context_for_query, given relevant_projects
ContextOf(data, sums, meta, query, gens, relevant) ==
    IF Len(relevant) = 0 THEN ComprehensiveOverview(data, Lower(query))
    ELSE [kind |-> "ranked",
          query |-> query,
          count |-> Len(relevant),
          entries |-> [k \in 1..Len(relevant) |->
                         RenderProject(sums, meta, data[relevant[k].pos], k - 1,
                                       gens[k])],
          ranking |-> relevant]

\* _get_context_for_query when no extraction raises; gens[k] is the outcome
\* of a generator call for the k-th rendered record
ContextForQuery(data, sums, meta, query, gens) ==
    ContextOf(data, sums, meta, query, gens, RelevantProjects(data, query))

\* whether _get_context_for_query raises: the scoring loop reads every record
ContextRaises(data) == \E k \in 1..Len(data) : ExtractRaises(data[k])

----------------------------------------------------------------------------
(* EnhancedSDGPAIChatbot: the conversation memory *)

\* deque(maxlen=10)
HistoryMaxLen == 10

\* append on a deque without maxlen
DequeAppendUnbounded(dq, x, maxlen) == Append(dq, x)

\* dq.append(x) on a deque of maxlen: a full deque drops its leftmost item
DequeAppend(dq, x, maxlen) ==
    IF Len(dq) = maxlen THEN Append(Tail(dq), x) ELSE Append(dq, x)

\* the exchange _add_to_conversation_history appends
Exchange(user_input, ai_response, clock) ==
    [user |-> user_input, ai |-> ai_response, timestamp |-> clock]

\* a rendering of every exchange of the memory
GetConversationContextAll(conversation) ==
    LET line(k) == "User: " \o conversation[k].user \o "\nAI: "
                       \o Take(conversation[k].ai, 100) \o "...\n\n"
        from(k) == IF k <= Len(conversation) THEN line(k) ELSE ""
    IN IF conversation = <<>> THEN ""
       ELSE "Recent conversation:\n" \o from(1) \o from(2) \o from(3) \o from(4)
                \o from(5) \o from(6) \o from(7) \o from(8) \o from(9) \o from(10)

\* _get_conversation_context(): the text of the last 3 exchanges
GetConversationContext(conversation) ==
    LET recent == SubSeq(conversation,
                         IF Len(conversation) > 3 THEN Len(conversation) - 2 ELSE 1,
                         Len(conversation))
        line(k) == "User: " \o recent[k].user \o "\nAI: "
                       \o Take(recent[k].ai, 100) \o "...\n\n"
        from(k) == IF k <= Len(recent) THEN line(k) ELSE ""
    IN IF conversation = <<>> THEN ""
       ELSE "Recent conversation:\n" \o from(1) \o from(2) \o from(3)

\* a chat that takes every input for a question
CommandOfNoCommands(user_input) == [kind |-> "query", id |-> ""]

\* the special command of chat and chat_streaming that the input is, or
\* "query" for an input that goes to the generator
CommandOf(user_input) ==
    LET user_input_lower == Strip(Lower(user_input))
        words == Split(user_input_lower)
        startswith(str, prefix) ==
            Len(str) >= Len(prefix) /\ SubSeq(str, 1, Len(prefix)) = prefix
        isdigit(str) ==
            /\ Len(str) > 0
            /\ \A i \in 1..Len(str) :
                  CharAt(str, i) \in {"0", "1", "2", "3", "4", "5", "6", "7", "8", "9"}
        ids == {k \in DOMAIN words :
                   isdigit(words[k]) \/ (startswith(words[k], "project_")
                                          /\ Len(words[k]) > 8)}
    IN IF /\ startswith(user_input_lower, "details ")
             \/ startswith(user_input_lower, "project ")
          /\ ids # {}
       THEN [kind |-> "details",
             id |-> words[CHOOSE k \in ids : \A j \in ids : k <= j]]
       ELSE IF user_input_lower \in {"stats", "clear cache", "export"}
       THEN [kind |-> user_input_lower, id |-> ""]
       ELSE [kind |-> "query", id |-> ""]

\* a loop body that leaves the indicator running
OnChunkNoStop(st, chunk_text) ==
    [st EXCEPT !.first_chunk = FALSE,
               !.full_response = @ \o chunk_text,
               !.handed = Append(@, [kind |-> "chunk", text |-> chunk_text])]

\* the body of the loop of chat_streaming for a chunk with text: the first
\* one stops the indicator, and every one is added to the response and
\* yielded
OnChunk(st, chunk_text) ==
    [st EXCEPT !.stop_event = @ \/ st.first_chunk,
               !.first_chunk = FALSE,
               !.full_response = @ \o chunk_text,
               !.handed = Append(@, [kind |-> "chunk", text |-> chunk_text])]

----------------------------------------------------------------------------
(* The records and inputs of the model *)

\* the largest number of calls of chat and chat_streaming in one conversation
MaxExchanges == 4

\* the largest number of exchanges of one conversation
MaxTurns == 12

\* what the user says, and what the model answers
UserInputs == {"health", "hi"}

AiResponses == {"R1"}

\* the largest value of the clock
MaxTime == 1

\* the largest number of file-system failures in one run
MaxFaults == 1

\* a record as the scraper stores it when the detail fetch succeeds
PHealth ==
    [basic_info |->
        [id |-> "p1", title |-> "Health Cam", subtitle |-> "Vitals",
         status |-> "MVP", domains |-> <<"Healthcare">>, projectTypes |-> <<"Mobile">>,
         year |-> "2025", updatedAt |-> "u1"],
     detailed_info |->
        [content |->
            [projectDetails |->
                [problem_statement |-> "No medical", solution |-> "Cam",
                 features |-> "SMS"],
             team |-> <<"ann", "bob">>,
             associations |-> <<[type |-> "PROJECT_TECH", techStack |-> "Python"],
                                [type |-> "PROJECT_SDG", sdgGoal |-> "3"]>>]]]

\* PHealth after a change of a hashed field
PHealthUpdated ==
    [PHealth EXCEPT !.basic_info.updatedAt = "u2"]

\* PHealth after a change of a field that is not hashed (a team member's name)
PHealthRenamedMember ==
    [PHealth EXCEPT !.detailed_info.content.team = <<"ann", "rob">>]

\* a record without the key detailed_info
PTutor ==
    [basic_info |->
        [id |-> "p2", title |-> "AI Tutor", subtitle |-> "Quiz",
         status |-> "IDEA", domains |-> <<"EdTech", "AI">>,
         projectTypes |-> <<"Web">>, year |-> "2024", updatedAt |-> "u1"]]

\* a record whose basic_info has no id
PNoId ==
    [basic_info |->
        [title |-> "eHealth", subtitle |-> "", status |-> "IDEA",
         domains |-> <<"Health">>, projectTypes |-> <<"Web">>,
         year |-> "2024", updatedAt |-> "u1"],
     detailed_info |-> EmptyDict]

\* a record as the scraper stores it when the detail fetch fails
PUnfetched ==
    [basic_info |->
        [id |-> "p3", title |-> "Health Bot", subtitle |-> "", status |-> "IDEA",
         domains |-> <<"Health">>, projectTypes |-> <<"Web">>,
         year |-> "2024", updatedAt |-> "u1"],
     detailed_info |-> PyNone]

\* a record as the scraper stores it when it has no id: the bare listing entry
PRaw == [title |-> "Health"]

\* the records the cache operations are called with, by number
Records == <<PHealth, PHealthUpdated, PTutor, PHealthRenamedMember>>

\* the calls of store_summary: (id, record number, summary)
PutArgs == {<<"p1", 1, "S1">>, <<"p1", 2, "S2">>, <<"p2", 3, "S1">>}

\* the calls of get_summary: (id, record number)
GetArgs == {<<"p1", 1>>, <<"p1", 2>>, <<"p1", 4>>, <<"p2", 3>>}

\* the loaded project data
Corpus == <<PRaw, PHealth, PNoId>>

\* project data with a record whose detail fetch failed
CorpusUnfetched == <<PHealth, PUnfetched>>

\* the project data the chatbot is started with
Corpora == {Corpus, CorpusUnfetched}

\* the queries of the context builds: one that matches records of Corpus and
\* one that matches none
Queries == {"Health", "quiz"}

\* the record of Scenario A: a title and a domain list, nothing else
ScenarioA ==
    [basic_info |-> [title |-> "Smart Health Monitor", domains |-> <<"Healthcare">>]]

\* a record with the given text fields and tags
MkRecord(title, subtitle, problem, solution, features, domains, project_types) ==
    [basic_info |->
        [id |-> "r1", title |-> title, subtitle |-> subtitle, domains |-> domains,
         projectTypes |-> project_types],
     detailed_info |->
        [content |-> [projectDetails |->
            [problem_statement |-> problem, solution |-> solution,
             features |-> features]]]]

\* the values of the fields of the scored records
RankTitles == {"", "AI Lab"}

RankSubtitles == {"", "Medical"}

RankProblems == {"", "No health AI", "E-learning"}

RankSolutions == {"", "Train"}

RankFeatures == {"", "Health tips"}

RankDomains == {<<>>, <<"Healthcare">>, <<"EdTech", "AI">>, <<"Medical", "Mental Health">>}

RankTypes == {<<>>, <<"AI Mobile">>}

\* the scored records
RankRecords ==
    {ScenarioA} \cup
    {MkRecord(t, st, pr, so, fe, do, ty) :
        t \in RankTitles, st \in RankSubtitles, pr \in RankProblems,
        so \in RankSolutions, fe \in RankFeatures, do \in RankDomains,
        ty \in RankTypes}

\* the scored queries
RankQueries ==
    {"health", "AI ai", "medical  edtech", "Education", "artificial intelligence", ""}

\* queries, the words appended to them, and the queries so made
AppendBases == {"health", "Education", ""}

AppendWords == {"ai", "lab", "medical", "zz"}

AppendQueries == AppendBases \cup {q \o " " \o w : q \in AppendBases, w \in AppendWords}

\* the largest number of loaded records
MaxRecords == 12

\* a record with an id and a title, without the key detailed_info
MkBasic(id, title) == [basic_info |-> [id |-> id, title |-> title]]

\* a record with a title and no id
PNoIdHealth == [basic_info |-> [title |-> "Health"]]

\* the records of the ranked project data: two share the id "a", one has no
\* id, one has no basic_info, one matches no query, and one has the id that
\* is the placeholder of the first place
OrderRecords ==
    {MkBasic("a", "Health AI"), MkBasic("b", "Health"), MkBasic("a", "AI"),
     PNoIdHealth, PRaw, MkBasic("c", "Zoo"), MkBasic("project_0", "AI Health")}

\* MaxRecords records with ids of their own, every third with a second
\* matching word in its title
BigCorpus ==
    [k \in 1..MaxRecords |->
        MkBasic("r" \o ToString(k), IF k % 3 = 0 THEN "Health AI" ELSE "Health")]

\* the ranked project data
OrderCorpora ==
    {<<x, y, z>> : x \in OrderRecords, y \in OrderRecords, z \in OrderRecords}
    \cup {BigCorpus, CorpusUnfetched}

\* the queries of the ranked context builds
OrderQueries == {"health", "AI health", "", "  "}

\* the outcomes of the generator calls of one context build, one for each
\* rendered record
GenPlans == {[k \in 1..MaxRecords |-> "ok"], [k \in 1..MaxRecords |-> "fail"]}

\* a record with every hashed field: two domains, two technologies
HBase ==
    [basic_info |->
        [id |-> "h1", title |-> "Health Cam", subtitle |-> "Vitals",
         status |-> "MVP", domains |-> <<"Health", "AI">>, projectTypes |-> <<"Mobile">>,
         year |-> "2025", updatedAt |-> "u1"],
     detailed_info |->
        [content |->
            [projectDetails |->
                [problem_statement |-> "No medical", solution |-> "Cam",
                 features |-> "SMS"],
             team |-> <<"ann", "bob">>,
             associations |-> <<[type |-> "PROJECT_TECH", techStack |-> "Python"],
                                [type |-> "PROJECT_SDG", sdgGoal |-> "3"],
                                [type |-> "PROJECT_TECH", techStack |-> "Flask"]>>]]]

\* HBase after a change of one hashed field
HashedChanges ==
    {[HBase EXCEPT !.basic_info.title = "Health Camera"],
     [HBase EXCEPT !.basic_info.subtitle = "Pulse"],
     [HBase EXCEPT !.basic_info.status = "IDEA"],
     [HBase EXCEPT !.basic_info.domains = <<"Health">>],
     [HBase EXCEPT !.basic_info.domains = <<"AI", "Health">>],
     [HBase EXCEPT !.basic_info.projectTypes = <<"Web">>],
     [HBase EXCEPT !.basic_info.year = "2024"],
     [HBase EXCEPT !.basic_info.updatedAt = "u2"],
     [HBase EXCEPT !.detailed_info.content.projectDetails.problem_statement = "None"],
     [HBase EXCEPT !.detailed_info.content.projectDetails.solution = "App"],
     [HBase EXCEPT !.detailed_info.content.projectDetails.features = "Mail"],
     [HBase EXCEPT !.detailed_info.content.team = <<"ann">>],
     [HBase EXCEPT !.detailed_info.content.associations =
         <<[type |-> "PROJECT_TECH", techStack |-> "Python"],
           [type |-> "PROJECT_SDG", sdgGoal |-> "3"]>>],
     [HBase EXCEPT !.detailed_info.content.associations =
         <<[type |-> "PROJECT_TECH", techStack |-> "Flask"],
           [type |-> "PROJECT_SDG", sdgGoal |-> "3"],
           [type |-> "PROJECT_TECH", techStack |-> "Python"]>>]}

\* HBase after a change of one field that is not hashed: the id, a team
\* member's name, an association of another type, a flag beside basic_info,
\* a flag beside the content
HBaseFlagged ==
    [basic_info |-> HBase.basic_info, detailed_info |-> HBase.detailed_info,
     featured |-> TRUE]

HBaseFetchFlag ==
    [basic_info |-> HBase.basic_info,
     detailed_info |-> [content |-> HBase.detailed_info.content, success |-> TRUE]]

UnhashedChanges ==
    {[HBase EXCEPT !.basic_info.id = "h2"],
     [HBase EXCEPT !.detailed_info.content.team = <<"ann", "rob">>],
     [HBase EXCEPT !.detailed_info.content.associations =
         <<[type |-> "PROJECT_TECH", techStack |-> "Python"],
           [type |-> "PROJECT_SDG", sdgGoal |-> "4", techStack |-> "Solar"],
           [type |-> "PROJECT_TECH", techStack |-> "Flask"]>>],
     HBaseFlagged, HBaseFetchFlag}

\* the basic_info of HBase without detailed info (the key absent, or None
\* as the scraper stores it), and with detailed info that is empty, that has
\* no content, whose content is empty, whose content has empty fields
HBare == [basic_info |-> HBase.basic_info]

HWith(detailed_info) ==
    [basic_info |-> HBase.basic_info, detailed_info |-> detailed_info]

HEmptyContent == HWith([content |-> EmptyDict])

DetailChanges ==
    {HBare, HWith(PyNone), HWith(EmptyDict), HWith([success |-> FALSE]),
     HEmptyContent,
     HWith([content |-> [projectDetails |-> [problem_statement |-> "", solution |-> "",
                                             features |-> ""],
                         team |-> <<>>, associations |-> <<>>]])}

HashRecords == {HBase} \cup HashedChanges \cup UnhashedChanges \cup DetailChanges

\* the cache keys of the two records of a pair
HashKey(k) == "k" \o ToString(k)

\* a record with an id, domain tags, a problem statement and a solution
MkDetailed(id, domains, problem, solution) ==
    [basic_info |-> [id |-> id, title |-> id, domains |-> domains],
     detailed_info |->
        [content |-> [projectDetails |->
            [problem_statement |-> problem, solution |-> solution]]]]

\* eight loaded records, one of them without basic_info, with ten domain
\* tags; six of them speak of water
OverviewCorpus ==
    <<MkDetailed("o1", <<"d1", "d2", "d3">>, "clean water", ""),
      MkDetailed("o2", <<"d1", "d2", "d4">>, "water", "pump"),
      PRaw,
      MkDetailed("o3", <<"d1", "d5", "d6">>, "", "Water filter"),
      MkDetailed("o4", <<"d7", "d8", "d9">>, "Water", ""),
      MkDetailed("o5", <<"d2", "d9", "d1">>, "rain water", ""),
      MkDetailed("o6", <<"d10">>, "waterfall", ""),
      MkDetailed("o7", <<"d3", "d3">>, "soil", "")>>

OverviewRecords ==
    {MkDetailed("o1", <<"d1", "d2">>, "clean water", ""),
     MkDetailed("o2", <<"d2">>, "", "pump"),
     MkDetailed("o7", <<"d3", "d3">>, "soil", ""),
     PRaw}

OverviewCorpora == {<<x, y>> : x, y \in OverviewRecords} \cup {OverviewCorpus}

OverviewQueries == {"water", "zz", "soil pump", ""}

\* HBase under the same id after a change of its title
HBaseRetitled == [HBase EXCEPT !.basic_info.title = "Health Camera"]

\* the project data a chatbot may find at its start: a record with an id
\* before one without, a record without id first, two records with one id
StartupCorpora ==
    {<<HBase, PNoId>>, <<PNoId, HBase>>, <<HBase, HBaseRetitled>>}

\* the outcomes of the generator calls of one pass or one context build
StartupPlans ==
    {[k \in 1..MaxRecords |-> "ok"], [k \in 1..MaxRecords |-> "fail"],
     [k \in 1..MaxRecords |-> "blank"]}

\* the queries put to a started chatbot
StartupQueries == {"health", "ehealth"}

\* the ids asked of the detail view
DetailIds == {"h1", "project_0"}

----------------------------------------------------------------------------
(* The state machine *)

cache == <<summaries, metadata>>

disk == <<summaries_file, metadata_file>>

history == <<put_ids, last_put>>

chat == <<conversation_history, turns, streaming>>

NoContext == [kind |-> "none"]

\* the history record of an operation that has no arguments and no outcome.
\* replaced is the summary a put found for its id ('' for none), had the ids
\* a clear found in the cache, scores the score of each scored position.
Op(name) ==
    [op |-> name, id |-> "", rec |-> 0, summary |-> "", fault |-> "none",
     raised |-> FALSE, result |-> Miss, replaced |-> "", had |-> {},
     stats |-> GetSummaryStats(EmptyDict, EmptyDict),
     query |-> "", context |-> NoContext, scores |-> <<>>, log |-> <<>>,
     gens |-> <<>>]

\* AISummaryManager() on an empty cache directory, before any operation
InitCache ==
    /\ summaries = EmptyDict
    /\ metadata = EmptyDict
    /\ summaries_file = FileAbsent
    /\ metadata_file = FileAbsent
    /\ now = 0
    /\ faults = 0
    /\ conversation_history = <<>>
    /\ turns = <<>>
    /\ streaming = [pc |-> "idle", user_input |-> "", plan |-> <<>>, stream |-> <<>>,
                    fails |-> FALSE, full_response |-> "", first_chunk |-> TRUE,
                    stop_event |-> FALSE, thread |-> "none", handed |-> <<>>,
                    late |-> 0]
    /\ put_ids = {}
    /\ last_put = EmptyDict
    /\ last = Op("init")

\* the summary cache of a chatbot with Corpus loaded, on an empty cache
\* directory
InitStore ==
    /\ project_data = Corpus
    /\ InitCache

\* the chatbot with project data loaded, on an empty cache directory
Init ==
    /\ project_data \in Corpora
    /\ InitCache

\* the file system may fail while fewer than MaxFaults failures have happened
FaultAllowed(fault) == fault = "none" \/ faults < MaxFaults

CountFault(fault) == IF fault = "none" THEN faults ELSE faults + 1

\* time passes
Tick ==
    /\ now < MaxTime
    /\ now' = now + 1
    /\ last' = Op("tick")
    /\ UNCHANGED <<project_data, chat, cache, disk, faults, history>>

\* store_summary(project_id, Records[rec], summary), the save meeting fault
Put(project_id, rec, summary, fault) ==
    LET r == StoreSummary(summaries, metadata, summaries_file, metadata_file, now,
                          project_id, Records[rec], summary, fault)
    IN /\ FaultAllowed(fault)
       /\ summaries' = r.summaries
       /\ metadata' = r.metadata
       /\ summaries_file' = r.sfile
       /\ metadata_file' = r.mfile
       /\ faults' = CountFault(fault)
       /\ put_ids' = put_ids \cup {project_id}
       /\ last_put' = [i \in DOMAIN last_put \cup {project_id} |->
                           IF i = project_id THEN [rec |-> rec, summary |-> summary]
                           ELSE last_put[i]]
       /\ last' = [Op("put") EXCEPT !.id = project_id, !.rec = rec,
                                    !.summary = summary, !.fault = fault,
                                    !.raised = r.raised,
                                    !.replaced = Get(summaries, project_id, "")]
       /\ UNCHANGED <<project_data, chat, now>>

\* get_summary(project_id, Records[rec])
GetOp(project_id, rec) ==
    /\ last' = [Op("get") EXCEPT !.id = project_id, !.rec = rec,
                                 !.result = GetSummary(project_id, Records[rec])]
    /\ UNCHANGED <<project_data, chat, cache, disk, now, faults, history>>

\* clear_cache(), the removal meeting fault
Clear(fault) ==
    LET r == ClearCache(summaries_file, metadata_file, fault)
    IN /\ fault \in ClearFaults(summaries_file, metadata_file)
       /\ FaultAllowed(fault)
       /\ summaries' = r.summaries
       /\ metadata' = r.metadata
       /\ summaries_file' = r.sfile
       /\ metadata_file' = r.mfile
       /\ faults' = CountFault(fault)
       /\ put_ids' = {}
       /\ last_put' = EmptyDict
       /\ last' = [Op("clear") EXCEPT !.fault = fault, !.raised = r.raised,
                                      !.had = DOMAIN summaries]
       /\ UNCHANGED <<project_data, chat, now>>

\* get_summary_stats()
Stats ==
    /\ last' = [Op("stats") EXCEPT !.stats = GetSummaryStats(summaries, metadata)]
    /\ UNCHANGED <<project_data, chat, cache, disk, now, faults, history>>

\* export_summaries(): the export file is written, or the failed write is
\* logged and raised again
Export(fails) ==
    /\ last' = [Op("export") EXCEPT !.raised = fails]
    /\ UNCHANGED <<project_data, chat, cache, disk, now, faults, history>>

\* a new AISummaryManager on the same cache directory: __init__ and
\* _load_summaries
Restart ==
    LET r == LoadSummaries(summaries_file, metadata_file)
    IN /\ summaries' = r.summaries
       /\ metadata' = r.metadata
       /\ put_ids' = DOMAIN r.summaries
       /\ last_put' = EmptyDict
       /\ last' = [Op("load") EXCEPT !.raised = r.raised]
       /\ UNCHANGED <<project_data, chat, disk, now, faults>>

\* _get_context_for_query(query)
BuildContext(query, gens) ==
    /\ last' = IF ContextRaises(project_data)
               THEN [Op("context") EXCEPT !.query = query, !.gens = gens,
                                          !.raised = TRUE]
               ELSE [Op("context") EXCEPT !.query = query, !.gens = gens,
                       !.context = ContextForQuery(project_data, summaries, metadata,
                                                   query, gens)]
    /\ UNCHANGED <<project_data, chat, cache, disk, now, faults, history>>

\* the scoring loop of _get_context_for_query(query): the score of every
\* record that has basic_info, by position
ScoreRecords(query) ==
    /\ last' = IF ContextRaises(project_data)
               THEN [Op("score") EXCEPT !.query = query, !.raised = TRUE]
               ELSE [Op("score") EXCEPT !.query = query,
                       !.scores = [pos \in {k \in 1..Len(project_data) :
                                              "basic_info" \in DOMAIN project_data[k]} |->
                                     ScoreOf(Lower(query), Split(Lower(query)),
                                             project_data[pos])]]
    /\ UNCHANGED <<project_data, chat, cache, disk, now, faults, history>>

\* the operations of the summary cache, on a file system that may fail
NextCache ==
    \/ Tick
    \/ \E a \in PutArgs, f \in SaveFaults : Put(a[1], a[2], a[3], f)
    \/ \E a \in GetArgs : GetOp(a[1], a[2])
    \/ \E f \in ClearFaultKinds : Clear(f)
    \/ Stats
    \/ \E fails \in BOOLEAN : Export(fails)
    \/ Restart

\* the summary cache alone
SpecCache == InitStore /\ [][NextCache]_vars

\* the operations of the chatbot and its summary cache, on a file system
\* that does not fail
Next ==
    \/ Tick
    \/ \E a \in PutArgs : Put(a[1], a[2], a[3], "none")
    \/ \E a \in GetArgs : GetOp(a[1], a[2])
    \/ Clear("none")
    \/ Stats
    \/ \E fails \in BOOLEAN : Export(fails)
    \/ Restart
    \/ \E q \in Queries, g \in GenPlans : BuildContext(q, g)

Spec == Init /\ [][Next]_vars

\* the chatbot with one of the scored records loaded
InitRank ==
    /\ project_data \in {<<r>> : r \in RankRecords}
    /\ InitCache

NextRank == \E q \in RankQueries : ScoreRecords(q)

\* the relevance score, over the scored records and queries
SpecRank == InitRank /\ [][NextRank]_vars

\* the chatbot with one of the ranked project data loaded
InitOrder ==
    /\ project_data \in OrderCorpora
    /\ InitCache

NextOrder ==
    \/ \E q \in OrderQueries : ScoreRecords(q)
    \/ \E q \in OrderQueries, g \in GenPlans : BuildContext(q, g)

\* scoring, ranking and context builds over the ranked project data
SpecOrder == InitOrder /\ [][NextOrder]_vars

\* store_summary(HashKey(k), project_data[k], 'S1')
StoreRecord(k) ==
    LET r == StoreSummary(summaries, metadata, summaries_file, metadata_file, now,
                          HashKey(k), project_data[k], "S1", "none")
    IN /\ summaries' = r.summaries
       /\ metadata' = r.metadata
       /\ summaries_file' = r.sfile
       /\ metadata_file' = r.mfile
       /\ put_ids' = put_ids \cup {HashKey(k)}
       /\ last_put' = [i \in DOMAIN last_put \cup {HashKey(k)} |->
                           IF i = HashKey(k) THEN [rec |-> k, summary |-> "S1"]
                           ELSE last_put[i]]
       /\ last' = [Op("put") EXCEPT !.id = HashKey(k), !.rec = k, !.summary = "S1",
                                    !.raised = r.raised,
                                    !.replaced = Get(summaries, HashKey(k), "")]
       /\ UNCHANGED <<project_data, chat, now, faults>>

\* get_summary(HashKey(i), project_data[k])
GetRecord(i, k) ==
    /\ last' = [Op("get") EXCEPT !.id = HashKey(i), !.rec = k,
                                 !.result = GetSummary(HashKey(i), project_data[k])]
    /\ UNCHANGED <<project_data, chat, cache, disk, now, faults, history>>

NextAppend == \E q \in AppendQueries : ScoreRecords(q)

\* the scores of one record for a query and for the query with one more word
SpecAppend == InitRank /\ [][NextAppend]_vars

\* _add_to_conversation_history(user_input, ai_response)
AddToConversationHistory(user_input, ai_response) ==
    /\ Len(turns) < MaxTurns
    /\ conversation_history' =
           DequeAppend(conversation_history, Exchange(user_input, ai_response, now),
                       HistoryMaxLen)
    /\ turns' = Append(turns, [user |-> user_input, ai |-> ai_response,
                                timestamp |-> now])
    /\ last' = Op("turn")
    /\ UNCHANGED <<project_data, streaming, cache, disk, now, faults, history>>

NextChat == \E u \in UserInputs, a \in AiResponses : AddToConversationHistory(u, a)

\* the conversation memory of a chatbot
SpecChat == InitStore /\ [][NextChat]_vars

\* EnhancedSDGPAIChatbot(): a new AISummaryManager on the cache directory,
\* the project data corpus loaded, and the startup summary pass
NewChatbot(corpus, gens) ==
    LET loaded == LoadSummaries(summaries_file, metadata_file)
        r == GenerateProjectSummaries(corpus, 1,
                 [summaries |-> loaded.summaries, metadata |-> loaded.metadata,
                  sfile |-> summaries_file, mfile |-> metadata_file, log |-> <<>>],
                 gens, now)
    IN /\ project_data' = corpus
       /\ conversation_history' = <<>>
       /\ turns' = <<>>
       /\ summaries' = r.summaries
       /\ metadata' = r.metadata
       /\ summaries_file' = r.sfile
       /\ metadata_file' = r.mfile
       /\ put_ids' = DOMAIN r.summaries
       /\ last_put' = EmptyDict
       /\ last' = [Op("startup") EXCEPT !.gens = gens, !.log = r.log,
                                        !.had = DOMAIN loaded.summaries]
       /\ UNCHANGED <<streaming, now, faults>>

\* get_detailed_project_info(project_id)
DetailView(project_id, gen) ==
    LET r == DetailedProjectInfo(project_data, summaries, metadata, project_id, gen)
    IN /\ last' = [Op("detail") EXCEPT !.id = project_id, !.gens = <<gen>>,
                                       !.raised = (r.kind = "raised"),
                                       !.context = r]
       /\ UNCHANGED <<project_data, chat, cache, disk, now, faults, history>>

\* _get_conversation_context()
RecentContext ==
    /\ last' = [Op("recent") EXCEPT !.summary = GetConversationContext(conversation_history)]
    /\ UNCHANGED <<project_data, chat, cache, disk, now, faults, history>>

\* chat(user_input): a special command is answered at once; a question is
\* answered by the generator with ai_response, unless the generator fails
\* or the context build raises, and the exchange is remembered.  The call
\* meets no file-system fault.
Chat(user_input, ai_response, outcome) ==
    LET cmd == CommandOf(user_input)
        answered == /\ cmd.kind = "query"
                    /\ ~ContextRaises(project_data)
                    /\ outcome = "ok"
        cleared == ClearCache(summaries_file, metadata_file, "none")
    IN /\ streaming.pc = "idle"
       /\ Len(turns) < MaxExchanges
       /\ IF cmd.kind = "clear cache"
          THEN /\ summaries' = cleared.summaries
               /\ metadata' = cleared.metadata
               /\ summaries_file' = cleared.sfile
               /\ metadata_file' = cleared.mfile
               /\ put_ids' = {}
               /\ last_put' = EmptyDict
          ELSE UNCHANGED <<cache, disk, history>>
       /\ IF answered
          THEN /\ conversation_history' =
                     DequeAppend(conversation_history,
                                 Exchange(user_input, ai_response, now), HistoryMaxLen)
               /\ turns' = Append(turns, [user |-> user_input, ai |-> ai_response,
                                           timestamp |-> now])
          ELSE UNCHANGED <<conversation_history, turns>>
       /\ last' = [Op("chat") EXCEPT !.query = user_input, !.id = cmd.kind,
                                     !.summary = ai_response, !.gens = <<outcome>>,
                                     !.raised = (cmd.kind = "query" /\ ~answered)]
       /\ UNCHANGED <<project_data, streaming, now, faults>>

\* chat_streaming(user_input), to the call of the generator: a special
\* command is answered at once; for a question the context is built, the
\* indicator thread is started and the generator is asked for a stream, which
\* will give the chunks of stream and then end, or fail.  The locals of a
\* call are kept while it runs; the thread and its stop_event stay.  The
\* thread of the call before has ended: that call joined it for up to 1 s,
\* two polling intervals.
ChatStreaming(user_input, stream, fails) ==
    LET cmd == CommandOf(user_input)
        starts == cmd.kind = "query" /\ ~ContextRaises(project_data)
        cleared == ClearCache(summaries_file, metadata_file, "none")
    IN /\ streaming.pc = "idle"
       /\ streaming.thread \in {"none", "done"}
       /\ Len(turns) < MaxExchanges
       /\ IF cmd.kind = "clear cache"
          THEN /\ summaries' = cleared.summaries
               /\ metadata' = cleared.metadata
               /\ summaries_file' = cleared.sfile
               /\ metadata_file' = cleared.mfile
               /\ put_ids' = {}
               /\ last_put' = EmptyDict
          ELSE UNCHANGED <<cache, disk, history>>
       /\ streaming' =
             IF starts
             THEN [pc |-> "streaming", user_input |-> user_input, plan |-> stream,
                   stream |-> stream, fails |-> fails, full_response |-> "",
                   first_chunk |-> TRUE, stop_event |-> FALSE, thread |-> "check",
                   handed |-> <<>>, late |-> 0]
             ELSE streaming
       /\ last' = [Op("streaming") EXCEPT !.query = user_input, !.id = cmd.kind,
                                          !.raised = (cmd.kind = "query" /\ ~starts)]
       /\ UNCHANGED <<project_data, conversation_history, turns, now, faults>>

\* chat_streaming goes on when the stream gives its next chunk, ends or
\* fails: a chunk with text is handed on by the loop body; at the end the
\* indicator is stopped and the exchange remembered; at a failure the
\* indicator is stopped and the error message is yielded
NextChunk ==
    LET ended == [streaming EXCEPT !.pc = "idle", !.stop_event = TRUE,
                                   !.user_input = "", !.plan = <<>>,
                                   !.full_response = "", !.first_chunk = TRUE,
                                   !.fails = FALSE, !.handed = <<>>]
    IN /\ streaming.pc = "streaming"
       /\ IF streaming.stream # <<>>
          THEN /\ streaming' =
                     IF Head(streaming.stream) # ""
                     THEN OnChunk([streaming EXCEPT !.stream = Tail(@)],
                                  Head(streaming.stream))
                     ELSE [streaming EXCEPT !.stream = Tail(@)]
               /\ UNCHANGED <<conversation_history, turns>>
          ELSE IF streaming.fails
          THEN /\ streaming' = ended
               /\ UNCHANGED <<conversation_history, turns>>
          ELSE /\ streaming' = ended
               /\ conversation_history' =
                     DequeAppend(conversation_history,
                                 Exchange(streaming.user_input,
                                          streaming.full_response, now),
                                 HistoryMaxLen)
               /\ turns' = Append(turns, [user |-> streaming.user_input,
                                           ai |-> streaming.full_response,
                                           timestamp |-> now])
       /\ last' = [Op("streaming") EXCEPT !.query = streaming.user_input,
                                          !.id = "query",
                                          !.raised = (streaming.stream = <<>>
                                                      /\ streaming.fails)]
       /\ UNCHANGED <<project_data, cache, disk, now, faults, history>>

\* a step of the thread of _show_typing_indicator: it tests stop_event and
\* ends or goes on to print, prints and begins to sleep, or wakes up.  late
\* counts the sleeps begun with stop_event set.
ShowTypingIndicator ==
    /\ streaming.thread \in {"check", "print", "sleep"}
    /\ streaming' =
          CASE streaming.thread = "check" ->
                 [streaming EXCEPT !.thread = IF streaming.stop_event THEN "done"
                                              ELSE "print"]
            [] streaming.thread = "print" ->
                 [streaming EXCEPT !.thread = "sleep",
                                   !.late = IF streaming.stop_event THEN @ + 1 ELSE @]
            [] streaming.thread = "sleep" ->
                 [streaming EXCEPT !.thread = "check"]
    /\ UNCHANGED <<project_data, conversation_history, turns, cache, disk, now,
                   faults, history, last>>

NextTalk ==
    \/ RecentContext
    \/ \E u \in {"project ideas", "stats", " Clear Cache", "export", "details 7"},
          o \in {"ok", "fail"} : Chat(u, "R1", o)
    \/ \E u \in {"health", "clear cache", "Project project_0 please"},
          s \in {<<>>,
                 <<"", "0123456789012345678901234567890123456789012345678901234567890123456789",
                   "0123456789012345678901234567890123456789012345678901234567890123456789">>},
          f \in BOOLEAN : ChatStreaming(u, s, f)
    \/ NextChunk
    \/ ShowTypingIndicator

\* a conversation with the chatbot
SpecTalk == InitStore /\ [][NextTalk]_vars

\* a conversation in which the indicator thread is scheduled
SpecTalkFair == InitStore /\ [][NextTalk]_vars /\ WF_vars(ShowTypingIndicator)

\* _get_comprehensive_overview(query), called with a lowercased query
OverviewOp(query) ==
    /\ last' = IF ContextRaises(project_data)
               THEN [Op("overview") EXCEPT !.query = query, !.raised = TRUE]
               ELSE [Op("overview") EXCEPT !.query = query,
                       !.context = ComprehensiveOverview(project_data, query)]
    /\ UNCHANGED <<project_data, chat, cache, disk, now, faults, history>>

InitOverview ==
    /\ project_data \in OverviewCorpora
    /\ InitCache

NextOverview ==
    \/ \E q \in OverviewQueries : OverviewOp(q)
    \/ \E q \in OverviewQueries, g \in GenPlans : BuildContext(q, g)

\* the overview, called by a context build or on its own
SpecOverview == InitOverview /\ [][NextOverview]_vars

\* no chatbot has run yet on the empty cache directory
InitStartup ==
    /\ project_data = <<>>
    /\ InitCache

NextStartup ==
    \/ \E c \in StartupCorpora, g \in StartupPlans : NewChatbot(c, g)
    \/ \E q \in StartupQueries, g \in StartupPlans : BuildContext(q, g)
    \/ \E i \in DetailIds, g \in {"ok", "fail", "blank"} : DetailView(i, g)

\* chatbots started one after another on one cache directory
SpecStartup == InitStartup /\ [][NextStartup]_vars

\* the chatbot with a pair of records loaded, on an empty cache directory
InitHash ==
    /\ project_data \in {<<x, y>> : x, y \in HashRecords}
    /\ InitCache

NextHash ==
    \/ \E k \in 1..2 : StoreRecord(k)
    \/ \E i, k \in 1..2 : GetRecord(i, k)

\* fingerprints of pairs of records, as the cache stores and compares them
SpecHash == InitHash /\ [][NextHash]_vars

----------------------------------------------------------------------------
(* The summary cache: properties of SpecCache *)

\* an entry is stored for id, with the fingerprint of record stored with it
FreshEntry(project_id, project) ==
    /\ project_id \in DOMAIN summaries
    /\ project_id \in DOMAIN metadata
    /\ "hash" \in DOMAIN metadata[project_id]
    /\ metadata[project_id].hash = GenerateProjectHash(project)

\* C1: a get(id, record) returns the cached summary if and only if an entry
\* exists for id and the fingerprint of record equals the fingerprint stored
\* with that entry; a get for an id never cached, for a record whose
\* fingerprint differs, or for an entry without stored fingerprint is a MISS.
C1_GetHitIffFresh ==
    last.op = "get" =>
        IF FreshEntry(last.id, Records[last.rec])
        THEN last.result = Hit(summaries[last.id])
        ELSE last.result = Miss

\* a get found an entry for its id whose stored fingerprint is not the
\* record's, and one whose fingerprint is
C1_Witness_StaleEntry ==
    /\ last.op = "get"
    /\ last.id \in DOMAIN summaries
    /\ last.id \in DOMAIN metadata
    /\ ~FreshEntry(last.id, Records[last.rec])
    /\ \E a \in GetArgs : a[1] = last.id /\ FreshEntry(a[1], Records[a[2]])

\* the number of entries that stats() reports
StatsCount == GetSummaryStats(summaries, metadata).total_summaries

\* C2: put is an overwriting upsert.  For every id put since the last clear,
\* a get with the record of the last put for the id returns the summary of
\* that put, and stats() counts the distinct ids the cache holds by load or
\* put since the last clear; a put of "S2" over "S1" leaves get = "S2" and
\* a count of 1.
C2_PutOverwrites ==
    /\ \A i \in DOMAIN last_put :
          GetSummary(i, Records[last_put[i].rec]) = Hit(last_put[i].summary)
    /\ StatsCount = Cardinality(put_ids)

\* a put of "S2" has just replaced the "S1" stored for its id, the only id
C2_Witness_Overwrite ==
    /\ last.op = "put"
    /\ last.replaced = "S1"
    /\ last.summary = "S2"
    /\ StatsCount = 1

\* both backing files hold the dump of the in-memory map
BothWritten ==
    /\ summaries_file = FileJson(summaries)
    /\ metadata_file = FileJson(metadata)

\* C4: a put either writes both backing stores or surfaces an error to its
\* caller; a put whose summaries write succeeded and whose metadata write
\* failed does not complete as a success.
C4_PairWrittenOrError ==
    last.op = "put" => BothWritten \/ last.raised

\* the cache as a new instance would load it from the backing files
Reloaded == LoadSummaries(summaries_file, metadata_file)

\* C5: a put whose save fails raises nothing to its caller, and the entry it
\* stored in memory answers a get with the same record.
C5_SaveFailureNotRaised ==
    (last.op = "put" /\ last.fault # "none") =>
        /\ ~last.raised
        /\ GetSummary(last.id, Records[last.rec]) = Hit(last.summary)

\* a put has met a failed write of the metadata file, after the summaries
\* file was written
C5_Witness_FailedSave ==
    /\ last.op = "put"
    /\ last.fault \in {"m_open", "m_write"}
    /\ summaries_file = FileJson(summaries)
    /\ metadata_file # FileJson(metadata)

\* C6: loading the cache raises nothing.  A missing backing file gives an
\* empty map for its store, and a backing file that cannot be parsed gives
\* two empty maps.
C6_LoadNeverRaises ==
    last.op = "load" =>
        /\ ~last.raised
        /\ summaries_file.kind = "absent" => summaries = EmptyDict
        /\ metadata_file.kind = "absent" => metadata = EmptyDict
        /\ (summaries_file.kind = "corrupt" \/ metadata_file.kind = "corrupt") =>
               (summaries = EmptyDict /\ metadata = EmptyDict)

\* a load has met a summaries file that holds entries next to a metadata
\* file that cannot be parsed
C6_Witness_CorruptMetadata ==
    /\ last.op = "load"
    /\ summaries_file.kind = "json"
    /\ DOMAIN summaries_file.obj # {}
    /\ metadata_file.kind = "corrupt"

\* C7: a put persists before it returns.  When no write fails, a new
\* instance loading the backing files holds exactly the in-memory entries,
\* the entry of the put among them.
C7_PutPersists ==
    (last.op = "put" /\ last.fault = "none") =>
        /\ Reloaded.summaries = summaries
        /\ Reloaded.metadata = metadata
        /\ GetSummaryIn(Reloaded.summaries, Reloaded.metadata,
                        last.id, Records[last.rec]) = Hit(last.summary)

\* a put without a failed write has stored a second entry, after an earlier
\* save had failed
C7_Witness_SecondEntry ==
    /\ last.op = "put"
    /\ last.fault = "none"
    /\ faults > 0
    /\ Cardinality(DOMAIN summaries) = 2

\* the in-memory cache is empty: every get is a MISS and stats() counts 0
CacheEmpty ==
    /\ \A a \in GetArgs : GetSummary(a[1], Records[a[2]]) = Miss
    /\ StatsCount = 0

----------------------------------------------------------------------------
(* The context builds: properties of Spec *)

\* the last operation built a context out of ranked records
RankedContext == last.op = "context" /\ last.context.kind = "ranked"

\* the record rendered as the k-th entry of the last context
RenderedRecord(k) == project_data[last.context.ranking[k].pos]

\* the get for the k-th entry of the last context, in the present cache
RenderedGet(k) == GetSummary(last.context.entries[k].project_id, RenderedRecord(k))

----------------------------------------------------------------------------
(* The relevance score: properties of SpecRank *)

Ind(b) == IF b THEN 1 ELSE 0

RECURSIVE SeqSum(_)
SeqSum(xs) == IF Len(xs) = 0 THEN 0 ELSE Head(xs) + SeqSum(Tail(xs))

\* the lowercased fields of a record that the reference formula reads
RefFields(project) ==
    LET basic == project.basic_info
        details == ProjectDetails(project)
    IN [title |-> Lower(Get(basic, "title", "")),
        subtitle |-> Lower(Get(basic, "subtitle", "")),
        problem |-> Lower(Get(details, "problem_statement", "")),
        solution |-> Lower(Get(details, "solution", "")),
        features |-> Lower(Get(details, "features", "")),
        domains |-> LowerAll(Get(basic, "domains", <<>>)),
        types |-> LowerAll(Get(basic, "projectTypes", <<>>))]

\* the weights of one query word
RefWordScore(word, f) ==
      10 * Ind(IsSub(word, f.title))
    + 8 * Ind(IsSub(word, f.subtitle))
    + 6 * Ind(IsSub(word, f.problem))
    + 6 * Ind(IsSub(word, f.solution))
    + 4 * Ind(IsSub(word, f.features))
    + 7 * Ind(\E k \in DOMAIN f.domains : IsSub(word, f.domains[k]))
    + 7 * Ind(\E k \in DOMAIN f.types : IsSub(word, f.types[k]))

\* the topics: synonyms looked for in the query, canonical terms looked for
\* in the domain list, keywords looked for in the problem statement
RefTopics ==
    <<[synonyms |-> {"health", "medical"},
       canonical |-> {"healthcare", "medical", "health"},
       keywords |-> {"health", "medical"}],
      [synonyms |-> {"education", "edtech"},
       canonical |-> {"education", "edtech", "learning"},
       keywords |-> {"education", "learning"}],
      [synonyms |-> {"ai", "artificial intelligence"},
       canonical |-> {"ai", "artificial intelligence", "machine learning"},
       keywords |-> {"ai", "intelligence"}]>>

\* the boosts of one topic
RefTopicBoost(topic, query_lower, f) ==
    IF \E syn \in topic.synonyms : IsSub(syn, query_lower)
    THEN 15 * Ind(\E k \in DOMAIN f.domains : f.domains[k] \in topic.canonical)
         + 10 * Ind(\E kw \in topic.keywords : IsSub(kw, f.problem))
    ELSE 0

\* the reference formula
RefScore(query, project) ==
    LET query_lower == Lower(query)
        words == Split(query_lower)
        f == RefFields(project)
    IN SeqSum([k \in 1..Len(words) |-> RefWordScore(words[k], f)])
       + SeqSum([t \in 1..Len(RefTopics) |-> RefTopicBoost(RefTopics[t], query_lower, f)])

\* C10: the relevance score of every record for every query is the reference
\* formula: over every whitespace-separated word of the lowercased query,
\* repeated words counted each time, 10 for a word inside the title, 8 the
\* subtitle, 6 the problem statement, 6 the solution, 4 the features, 7 any
\* domain tag, 7 any project-type tag; and for each topic with a synonym
\* inside the query, 15 for a canonical term in the domain list and 10 for a
\* keyword inside the problem statement.  Scenario A scores 32 for "health".
C10_ScoreIsReference ==
    last.op = "score" =>
        /\ ~last.raised
        /\ DOMAIN last.scores = 1..Len(project_data)
        /\ \A pos \in DOMAIN last.scores :
              last.scores[pos] = RefScore(last.query, project_data[pos])
        /\ (project_data = <<ScenarioA>> /\ last.query = "health") =>
              last.scores[1] = 32

\* Scenario A has been scored for the query "health"
C10_Witness_ScenarioA ==
    /\ last.op = "score"
    /\ last.query = "health"
    /\ project_data = <<ScenarioA>>
    /\ last.scores = <<32>>

----------------------------------------------------------------------------
(* The ranking: properties of SpecOrder *)

\* the last operation built a context and did not raise
BuiltContext == last.op = "context" /\ ~last.raised

\* the ranked records of the last context build: relevant_projects
RankedOutput ==
    IF last.context.kind = "ranked" THEN last.context.ranking ELSE <<>>

\* the positions of the records in the ranked output
OutputPositions == {RankedOutput[k].pos : k \in DOMAIN RankedOutput}

\* the score of the record at position pos for the query of the last operation
OrderScore(pos) ==
    ScoreOf(Lower(last.query), Split(Lower(last.query)), project_data[pos])

\* the positions of the records with a score greater than 0
Positive ==
    {p \in 1..Len(project_data) :
        "basic_info" \in DOMAIN project_data[p] /\ OrderScore(p) > 0}

\* the identifier of the record at position pos: its id, or the placeholder
\* of its place
EffectiveId(pos) == Get(project_data[pos].basic_info, "id", PlaceholderId(pos - 1))

\* no later positive-score record has the identifier of the record at pos
LastOfId(pos) == \A p \in Positive : EffectiveId(p) = EffectiveId(pos) => p <= pos

\* the score of the last record of the ranked output
LowestScore == OrderScore(RankedOutput[Len(RankedOutput)].pos)

\* the ranked output holds records of positive score only, in an order of
\* non-increasing score
PositiveAndSorted ==
    /\ \A k \in DOMAIN RankedOutput : RankedOutput[k].pos \in Positive
    /\ \A k \in DOMAIN RankedOutput : RankedOutput[k].score = OrderScore(RankedOutput[k].pos)
    /\ \A k \in 1..(Len(RankedOutput) - 1) :
          OrderScore(RankedOutput[k].pos) >= OrderScore(RankedOutput[k + 1].pos)

\* C11 as the specification states it: the ranked output holds records of
\* positive score only, in an order of non-increasing score, and every
\* record of positive score left out scores no more than the last of the
\* output
C11_TopOfPositive ==
    BuiltContext =>
        /\ PositiveAndSorted
        /\ \A p \in Positive \ OutputPositions :
              Len(RankedOutput) > 0 /\ OrderScore(p) <= LowestScore

\* C11: the ranked output holds records of positive score only, in an order
\* of non-increasing score; a record of positive score is left out only if
\* a later record of positive score has its identifier, or if it scores no
\* more than the last record of the output.
C11_TopOfPositivePerId ==
    BuiltContext =>
        /\ PositiveAndSorted
        /\ \A p \in Positive \ OutputPositions :
              \/ ~LastOfId(p)
              \/ Len(RankedOutput) > 0 /\ OrderScore(p) <= LowestScore

\* a context build over more than ten records of positive score has left
\* records out and ranked a higher score before a lower one
C11_Witness_CutAtTen ==
    /\ BuiltContext
    /\ project_data = BigCorpus
    /\ Positive \ OutputPositions # {}
    /\ RankedOutput[1].score > LowestScore

\* the first position of a positive-score record with the identifier of the
\* record at pos
FirstOfId(pos) ==
    CHOOSE p \in Positive :
        /\ EffectiveId(p) = EffectiveId(pos)
        /\ \A p2 \in Positive : EffectiveId(p2) = EffectiveId(pos) => p <= p2

\* C12 as the specification states it: two records of equal score are in
\* the ranked output in their order in the input list
C12_TiesInInputOrder ==
    BuiltContext =>
        \A j, k \in DOMAIN RankedOutput :
            (j < k /\ RankedOutput[j].score = RankedOutput[k].score)
            => RankedOutput[j].pos < RankedOutput[k].pos

\* C12: two records of equal score are in the ranked output in the order in
\* which their identifiers first occur among the positive-score records of
\* the input list; for two records whose identifier no other positive-score
\* record has, that is their order in the input list.
C12_TiesInFirstIdOrder ==
    BuiltContext =>
        \A j, k \in DOMAIN RankedOutput :
            (j < k /\ RankedOutput[j].score = RankedOutput[k].score)
            => /\ FirstOfId(RankedOutput[j].pos) < FirstOfId(RankedOutput[k].pos)
               /\ (LastOfId(FirstOfId(RankedOutput[j].pos))
                   /\ LastOfId(FirstOfId(RankedOutput[k].pos)))
                  => RankedOutput[j].pos < RankedOutput[k].pos

\* two records of equal score are ranked behind a record that follows them
\* in the input list
C12_Witness_TieBehindLater ==
    /\ BuiltContext
    /\ Len(RankedOutput) = 3
    /\ RankedOutput[2].score = RankedOutput[3].score
    /\ RankedOutput[1].score > RankedOutput[2].score
    /\ RankedOutput[1].pos > RankedOutput[3].pos

\* C13: the ranked output never has more than 10 entries, for every query
\* and every size of the record list, and the match count of the context
\* header is the number of records rendered.
C13_AtMostTen ==
    BuiltContext =>
        /\ Len(RankedOutput) <= 10
        /\ last.context.kind = "ranked" =>
              /\ last.context.count = Len(last.context.entries)
              /\ \A k \in DOMAIN last.context.entries :
                    last.context.entries[k].title
                        = Get(project_data[RankedOutput[k].pos].basic_info, "title", "Unknown")

\* a context build over more than ten records of positive score has
\* rendered ten
C13_Witness_TenOfMore ==
    /\ BuiltContext
    /\ Cardinality(Positive) > 10
    /\ last.context.count = 10
    /\ Len(last.context.entries) = 10

\* the query is empty or holds whitespace only
BlankQuery == Split(Lower(last.query)) = <<>>

\* C14: a context build for an empty or whitespace-only query does not
\* raise and gives the comprehensive overview, every record scoring 0, for
\* every record list that is not empty.
C14_BlankQueryOverview ==
    (last.op = "context" /\ BlankQuery) =>
        /\ ~last.raised
        /\ last.context.kind = "overview"
        /\ \A p \in 1..Len(project_data) :
              "basic_info" \in DOMAIN project_data[p] => OrderScore(p) = 0

----------------------------------------------------------------------------
(* Records without detailed info: a property of SpecOrder *)

\* the record at position pos has no detailed info: the key is absent, or
\* its value is None
NoDetailedInfo(pos) ==
    \/ "detailed_info" \notin DOMAIN project_data[pos]
    \/ IsNone(project_data[pos].detailed_info)

\* C15: a context build does not raise on a record without detailed info,
\* absent or None, neither when scoring nor when rendering it, and renders
\* "Not specified" for its missing nested fields.
C15_NoDetailedInfoRendered ==
    last.op = "context" =>
        /\ ~last.raised
        /\ \A k \in DOMAIN RankedOutput :
              NoDetailedInfo(RankedOutput[k].pos) =>
                  /\ last.context.entries[k].problem = "Not specified"
                  /\ last.context.entries[k].solution = "Not specified"
                  /\ last.context.entries[k].features = "Not specified"
                  /\ last.context.entries[k].tech_stack = "Not specified"

----------------------------------------------------------------------------
(* The fingerprint: properties of SpecHash *)

\* both records of the pair have been stored
BothStored == {HashKey(1), HashKey(2)} \subseteq DOMAIN metadata

\* the fingerprint stored with the record at position pos
Fingerprint(pos) == metadata[HashKey(pos)].hash

\* the nested content digest of which that fingerprint was computed
ContentDigest(pos) == Fingerprint(pos).of.json.content_hash

\* the detailed info of the record at position pos, {} when it has none
DetailOf(pos) ==
    IF NoDetailedInfo(pos) THEN EmptyDict ELSE project_data[pos].detailed_info

\* the two records have the same basic_info
SameBasicInfo == project_data[1].basic_info = project_data[2].basic_info

\* the record at position pos has an empty content object: its detailed
\* info is empty, or is a content that is empty
EmptyContentObject(pos) ==
    /\ ~NoDetailedInfo(pos)
    /\ \/ DOMAIN DetailOf(pos) = {}
       \/ /\ DOMAIN DetailOf(pos) = {"content"}
          /\ DOMAIN DetailOf(pos).content = {}

\* the digest of a content without fields
EmptyContentDigest ==
    Md5(JsonDumps([problem_statement |-> "", solution |-> "", features |-> "",
                   team_size |-> 0, tech_stack |-> <<>>]))

\* C16: a record without detailed info and the same record with an empty
\* content object have the same fingerprint.
C16_AbsentAsEmptyContent ==
    (BothStored /\ NoDetailedInfo(1) /\ SameBasicInfo /\ EmptyContentObject(2)) =>
        Fingerprint(1) = Fingerprint(2)

\* C16: the nested content digest of a record without detailed info is the
\* empty string, as it is for empty detailed info, so that the two have the
\* same fingerprint; with a content that is empty the nested digest is the
\* digest of the empty content and the fingerprint is another.
C16_AbsentAsEmptyDetail ==
    (BothStored /\ NoDetailedInfo(1) /\ SameBasicInfo) =>
        /\ ContentDigest(1) = EmptyStr
        /\ DOMAIN DetailOf(2) = {} => Fingerprint(1) = Fingerprint(2)
        /\ (EmptyContentObject(2) /\ DOMAIN DetailOf(2) # {}) =>
              /\ ContentDigest(2) = EmptyContentDigest
              /\ Fingerprint(1) # Fingerprint(2)

\* a record whose detailed info is None and the same record with an empty
\* content have both been stored
C16_Witness_NoneAndEmptyContent ==
    /\ BothStored
    /\ project_data[1] = HWith(PyNone)
    /\ project_data[2] = HEmptyContent
    /\ ContentDigest(1) = EmptyStr
    /\ Fingerprint(1) # Fingerprint(2)

\* the technologies of a content, in the order of its associations
TechList(content) ==
    LET tech == SelectSeq(Get(content, "associations", <<>>),
                          LAMBDA a : Get(a, "type", "") = "PROJECT_TECH")
    IN [k \in DOMAIN tech |-> Get(tech[k], "techStack", "")]

\* the hashed fields of the record at position pos, a missing field being
\* the empty value; whether the record has a content is among them
HashedFields(pos) ==
    LET basic == Get(project_data[pos], "basic_info", EmptyDict)
        has_content == "content" \in DOMAIN DetailOf(pos)
        content == IF has_content THEN DetailOf(pos).content ELSE EmptyDict
        details == Get(content, "projectDetails", EmptyDict)
    IN <<Get(basic, "title", ""), Get(basic, "subtitle", ""), Get(basic, "status", ""),
         Get(basic, "domains", <<>>), Get(basic, "projectTypes", <<>>),
         Get(basic, "year", ""), Get(basic, "updatedAt", ""), has_content,
         Get(details, "problem_statement", ""), Get(details, "solution", ""),
         Get(details, "features", ""), Len(Get(content, "team", <<>>)),
         TechList(content)>>

\* a get of the entry stored for one record of the pair, asked with the
\* other record
CrossGet ==
    /\ last.op = "get"
    /\ last.id \in DOMAIN summaries
    /\ last.id # HashKey(last.rec)

\* C17: two records that differ in a hashed field (title, subtitle, status,
\* domain list, project-type list, year, last-updated timestamp, problem
\* statement, solution, features, team size, tech-stack list, lists taken in
\* their order) have different fingerprints, and a get with one of them
\* misses the entry stored for the other.
C17_HashedChangeChangesFingerprint ==
    HashedFields(1) # HashedFields(2) =>
        /\ BothStored => Fingerprint(1) # Fingerprint(2)
        /\ CrossGet => ~last.result.hit

\* a record and the same record with its domains in another order have been
\* stored, and a get with one has missed the entry of the other
C17_Witness_ReorderedDomains ==
    /\ BothStored
    /\ project_data[1] = HBase
    /\ project_data[2] = [HBase EXCEPT !.basic_info.domains = <<"AI", "Health">>]
    /\ CrossGet
    /\ ~last.result.hit

----------------------------------------------------------------------------
(* The relevance score of a longer query: properties of SpecAppend *)

\* the lowercased title of the scored record
LoweredTitle == Lower(Get(project_data[1].basic_info, "title", ""))

\* the record is scored for a query, then for that query with word appended
AppendStep(word) ==
    /\ last.op = "score"
    /\ last'.op = "score"
    /\ last'.query = last.query \o " " \o word

\* C19: the score of a record for a query with one more word is never below
\* its score for the query, and is above it when the word is a substring of
\* the record's lowercased title.
C19_AppendedWordRaises ==
    [][\A w \in AppendWords :
          AppendStep(w) =>
              /\ last'.scores[1] >= last.scores[1]
              /\ IsSub(w, LoweredTitle) => last'.scores[1] > last.scores[1]]_vars

\* a record titled 'AI Lab' in a health domain is scored for 'health lab':
\* 22 for 'health', and 10 for the word of its title
C19_Witness_TitleWord ==
    /\ last.op = "score"
    /\ last.query = "health lab"
    /\ project_data[1] = MkRecord("AI Lab", "", "", "", "", <<"Healthcare">>, <<>>)
    /\ last.scores[1] = 32

----------------------------------------------------------------------------
(* The conversation memory: properties of SpecChat *)

\* the last n items of the list xs, all of them when it has fewer
LastOf(xs, n) == SubSeq(xs, IF Len(xs) > n THEN Len(xs) - n + 1 ELSE 1, Len(xs))

\* C20: the conversation memory holds at most 10 exchanges, and after any
\* number n of appends it holds the last min(n, 10) of them in the order of
\* their insertion: an append on a full memory evicts the oldest alone.
C20_HoldsLastTen ==
    /\ Len(conversation_history) <= 10
    /\ Len(conversation_history) = IF Len(turns) < 10 THEN Len(turns) ELSE 10
    /\ conversation_history = LastOf(turns, 10)

\* after 11 appends the first exchange, the only one with its user input,
\* is no longer in the memory, and the second is the oldest held
C20_Witness_FirstEvicted ==
    /\ Len(turns) = 11
    /\ Len(conversation_history) = 10
    /\ turns[1].user = "hi"
    /\ \A k \in 2..11 : turns[k].user = "health"
    /\ \A k \in 1..10 : conversation_history[k] # turns[1]
    /\ conversation_history[1] = turns[2]

----------------------------------------------------------------------------
(* The two maps of the cache: a property of SpecCache *)

\* the sum of the counts of a histogram over the dates of the set days
RECURSIVE HistogramSum(_, _)
HistogramSum(histogram, days) ==
    IF days = {} THEN 0
    ELSE LET d == CHOOSE x \in days : TRUE
         IN histogram[d] + HistogramSum(histogram, days \ {d})

\* C27: in every state of the cache, those made by loading the backing files
\* included, the summaries map and the metadata map have the same key set,
\* and the count that stats() reports is the sum of the counts of its
\* creation-date histogram.
C27_SameKeySets ==
    LET stats == GetSummaryStats(summaries, metadata)
    IN /\ DOMAIN summaries = DOMAIN metadata
       /\ stats.total_summaries
             = HistogramSum(stats.creation_dates, DOMAIN stats.creation_dates)

----------------------------------------------------------------------------
(* Records that share an identifier: a property of SpecOrder *)

\* C29: the ranked output never holds two records scored under the same
\* identifier: of the positive-score records that share one (a duplicate id,
\* or a placeholder equal to a real id) the output holds only the last in
\* input order, with its own score, and among records of equal score it
\* stands where the first of them would.
C29_OnePerIdentifier ==
    BuiltContext =>
        /\ \A j, k \in DOMAIN RankedOutput :
              EffectiveId(RankedOutput[j].pos) = EffectiveId(RankedOutput[k].pos) => j = k
        /\ \A k \in DOMAIN RankedOutput :
              /\ RankedOutput[k].pos \in Positive
              /\ LastOfId(RankedOutput[k].pos)
              /\ RankedOutput[k].score = OrderScore(RankedOutput[k].pos)
        /\ \A j, k \in DOMAIN RankedOutput :
              (RankedOutput[j].score = RankedOutput[k].score
               /\ FirstOfId(RankedOutput[j].pos) < FirstOfId(RankedOutput[k].pos)) => j < k

\* two records with the id 'a' score 20 and 10: the output holds the second
\* of them alone, with its 10, before the record that stands between them
\* in the input list and scores 10 too
C29_Witness_LastKeptAtFirstPlace ==
    /\ BuiltContext
    /\ project_data = <<MkBasic("a", "Health AI"), MkBasic("b", "Health"), MkBasic("a", "AI")>>
    /\ Len(RankedOutput) = 2
    /\ RankedOutput[1].pos = 3
    /\ RankedOutput[1].score = 10
    /\ RankedOutput[2].pos = 2
    /\ RankedOutput[2].score = 10

----------------------------------------------------------------------------
(* The startup summary pass: properties of SpecStartup *)

\* the positions of the records the pass handles: those with basic_info and
\* detailed_info
Covered ==
    {p \in 1..Len(project_data) :
        "basic_info" \in DOMAIN project_data[p] /\ "detailed_info" \in DOMAIN project_data[p]}

\* the identifier of the record at position pos in the pass: its id, or the
\* placeholder of its place
StartupId(pos) == Get(project_data[pos].basic_info, "id", PlaceholderId(pos - 1))

\* no later record of the pass has the identifier of the record at pos
LastCovered(pos) == \A p \in Covered : StartupId(p) = StartupId(pos) => p <= pos

\* the entry of the log of the pass for the record at position pos
LogOf(pos) == last.log[CHOOSE k \in DOMAIN last.log : last.log[k].pos = pos]

\* C24 as the specification states it: the pass generates and stores a
\* summary for a record only when get returned MISS for it, and after the
\* pass every record with basic and detailed info is a cache hit
C24_GeneratesOnlyOnMiss ==
    last.op = "startup" =>
        /\ \A k \in DOMAIN last.log : last.log[k].generated => last.log[k].got = Miss
        /\ \A p \in Covered : GetSummary(StartupId(p), project_data[p]).hit

\* C24: the pass generates and stores a summary for a record exactly when
\* get returned no summary for it, MISS or an empty cached summary; a record
\* whose cached entry has its fingerprint and a summary that is not empty
\* causes no generation and keeps its summary; after the pass every record
\* with basic and detailed info whose identifier no later such record has
\* is a cache hit with the summary of the pass.
C24_GeneratesOnlyWithoutSummary ==
    last.op = "startup" =>
        /\ {last.log[k].pos : k \in DOMAIN last.log} = Covered
        /\ \A k \in DOMAIN last.log :
              last.log[k].generated <=>
                  ~(last.log[k].got.hit /\ last.log[k].got.summary # "")
        /\ \A k \in DOMAIN last.log :
              ~last.log[k].generated => last.log[k].summary = last.log[k].got.summary
        /\ \A p \in Covered :
              LastCovered(p) =>
                  GetSummary(StartupId(p), project_data[p]) = Hit(LogOf(p).summary)

\* a chatbot has started on a cache that held the summaries of its two
\* records: its pass generated nothing
C24_Witness_AllCached ==
    /\ last.op = "startup"
    /\ Len(last.log) = 2
    /\ \A k \in DOMAIN last.log : ~last.log[k].generated /\ last.log[k].got.hit

\* C28: a record without id has one placeholder identifier: a context build
\* renders every record under the identifier the startup pass stored its
\* summary under, which is the one it was scored under, and reads the
\* summary of that entry.
C28_OnePlaceholder ==
    (last.op = "context" /\ ~last.raised /\ last.context.kind = "ranked") =>
        \A k \in DOMAIN last.context.entries :
            LET pos == last.context.ranking[k].pos
                own == GetSummary(StartupId(pos), project_data[pos])
            IN /\ last.context.entries[k].project_id = StartupId(pos)
               /\ last.context.ranking[k].project_id = StartupId(pos)
               /\ last.context.entries[k].from_cache = (own.hit /\ own.summary # "")

----------------------------------------------------------------------------
(* A failing summary generator: properties of SpecStartup *)

\* the fallback sentence of the record: title, subtitle, project types and
\* domains
FallbackSentence(project) ==
    LET basic == Get(project, "basic_info", EmptyDict)
    IN Get(basic, "title", "Unknown") \o ": " \o Get(basic, "subtitle", "")
       \o " - A " \o Join(", ", Get(basic, "projectTypes", <<>>))
       \o " project in " \o Join(", ", Get(basic, "domains", <<>>)) \o " domains."

\* C23: a failure of the summary generator is not propagated.  The startup
\* pass, the context build and the detail view do not raise, and the summary
\* of a record whose generator call failed is its fallback sentence, which
\* is not empty.
C23_FallbackOnFailure ==
    /\ last.op = "startup" =>
          /\ ~last.raised
          /\ \A k \in DOMAIN last.log :
                (last.log[k].generated /\ last.log[k].gen = "fail") =>
                    /\ last.log[k].summary = FallbackSentence(project_data[last.log[k].pos])
                    /\ Len(last.log[k].summary) > 0
    /\ last.op = "context" =>
          /\ ~last.raised
          /\ last.context.kind = "ranked" =>
                \A k \in DOMAIN last.context.entries :
                    (~last.context.entries[k].from_cache /\ last.gens[k] = "fail") =>
                        /\ last.context.entries[k].summary
                              = FallbackSentence(project_data[last.context.ranking[k].pos])
                        /\ Len(last.context.entries[k].summary) > 0
    /\ last.op = "detail" =>
          /\ ~last.raised
          /\ (last.context.kind = "detail" /\ ~last.context.from_cache
               /\ last.gens = <<"fail">>) =>
                  /\ last.context.summary = FallbackSentence(project_data[last.context.pos])
                  /\ Len(last.context.summary) > 0

\* the detail view of a record whose cached summary is stale has called the
\* generator, which failed, and shows the fallback sentence
C23_Witness_DetailFallback ==
    /\ last.op = "detail"
    /\ last.context.kind = "detail"
    /\ ~last.context.from_cache
    /\ last.gens = <<"fail">>
    /\ last.context.summary = "Health Cam: Vitals - A Mobile project in Health, AI domains."

----------------------------------------------------------------------------
(* The overview fallback: properties of SpecOverview *)

\* the last operation gave an overview
GaveOverview ==
    /\ last.op \in {"overview", "context"}
    /\ ~last.raised
    /\ last.context.kind = "overview"

\* the positions of the records that have basic_info
Described == {p \in 1..Len(project_data) : "basic_info" \in DOMAIN project_data[p]}

\* the number of times the records list the domain tag
TagCount(tag) ==
    LET tags(p) == Get(project_data[p].basic_info, "domains", <<>>)
    IN Cardinality({<<p, k>> \in Described \X (1..3) :
                       k \in DOMAIN tags(p) /\ tags(p)[k] = tag})

\* the domain tags of the records
AllTags ==
    UNION {{Get(project_data[p].basic_info, "domains", <<>>)[k] :
               k \in DOMAIN Get(project_data[p].basic_info, "domains", <<>>)} :
           p \in Described}

\* the positions of the records whose problem or solution text holds a word
\* of the query the overview was asked for
RelatedTo ==
    LET text(p, field) ==
            Lower(Get(Get(Get(Get(project_data[p], "detailed_info", EmptyDict),
                              "content", EmptyDict), "projectDetails", EmptyDict),
                      field, ""))
        words == Split(last.context.query)
    IN {p \in Described :
           \E k \in DOMAIN words : \/ IsSub(words[k], text(p, "problem_statement"))
                                   \/ IsSub(words[k], text(p, "solution"))}

\* the sequence xs is increasing
Increasing(xs) == \A j, k \in DOMAIN xs : j < k => xs[j] < xs[k]

\* the members of the sequence xs
Range(xs) == {xs[k] : k \in DOMAIN xs}

\* C22: the overview reports the number of loaded records, the at most 8
\* most frequent domain tags with their counts in descending order of
\* count, and at most 5 records: the first of those whose problem or
\* solution text holds a word of the query or, when there is none, records
\* among the first 5 of the list.
C22_OverviewContents ==
    GaveOverview =>
        LET ov == last.context
            shown == {ov.domains[k].domain : k \in DOMAIN ov.domains}
        IN /\ ov.total = Len(project_data)
           /\ Len(ov.domains) <= 8
           /\ Cardinality(shown) = Len(ov.domains)
           /\ Len(ov.domains) = IF Cardinality(AllTags) < 8 THEN Cardinality(AllTags) ELSE 8
           /\ \A k \in DOMAIN ov.domains :
                 /\ ov.domains[k].domain \in AllTags
                 /\ ov.domains[k].score = TagCount(ov.domains[k].domain)
                 /\ k > 1 => ov.domains[k - 1].score >= ov.domains[k].score
                 /\ \A t \in AllTags \ shown : TagCount(t) <= ov.domains[k].score
           /\ ov.related = Cardinality(RelatedTo)
           /\ Len(ov.listed) <= 5
           /\ Increasing(ov.listed)
           /\ IF RelatedTo # {}
              THEN /\ Range(ov.listed) \subseteq RelatedTo
                   /\ Len(ov.listed) = IF ov.related < 5 THEN ov.related ELSE 5
                   /\ \A p \in RelatedTo \ Range(ov.listed) :
                         \A q \in Range(ov.listed) : q < p
              ELSE Range(ov.listed) = Described \cap (1..5)

\* an overview of eight records for 'water': 8 of the 10 domain tags, and
\* the first 5 of the 6 records that speak of water
C22_Witness_CutToEightAndFive ==
    /\ last.op = "overview"
    /\ project_data = OverviewCorpus
    /\ last.context.total = 8
    /\ Len(last.context.domains) = 8
    /\ Cardinality(AllTags) = 10
    /\ last.context.related = 6
    /\ last.context.listed = <<1, 2, 4, 5, 6>>

\* C30 as stated: an overview that a context build falls back to has no
\* related records and lists the first 5 records of the loaded list, or all
\* of them when they are fewer.
C30_ListsFirstFive ==
    (last.op = "context" /\ GaveOverview) =>
        /\ last.context.related = 0
        /\ last.context.listed =
              Take([k \in 1..Len(project_data) |-> k], 5)

\* C30, amended: an overview that a context build falls back to has no
\* related records, a record whose problem or solution text holds a word of
\* the query having a positive score, and lists those of the first 5
\* records of the loaded list that have basic_info.
C30_FallbackHasNoRelated ==
    (last.op = "context" /\ GaveOverview) =>
        /\ last.context.related = 0
        /\ RelatedTo = {}
        /\ Range(last.context.listed) = Described \cap (1..5)
        /\ Increasing(last.context.listed)

\* a context build over eight records for a query that none of them matches
\* has fallen back to the overview, which lists those of the first 5 records
\* that have basic_info
C30_Witness_FirstFive ==
    /\ last.op = "context"
    /\ GaveOverview
    /\ project_data = OverviewCorpus
    /\ last.query = "zz"
    /\ last.context.related = 0
    /\ last.context.listed = <<1, 2, 4, 5>>

----------------------------------------------------------------------------
(* The conversation: properties of SpecTalk and SpecTalkFair *)

\* the lines of the recent context for one exchange
RenderedTurn(exchange) ==
    "User: " \o exchange.user \o "\nAI: "
        \o SubSeq(exchange.ai, 1, IF Len(exchange.ai) < 100 THEN Len(exchange.ai) ELSE 100)
        \o "...\n\n"

\* the text of the last min(3, size) exchanges of the buffer, oldest first
RecentText(buffer) ==
    LET size == Len(buffer)
    IN CASE size = 0 -> ""
         [] size = 1 -> "Recent conversation:\n" \o RenderedTurn(buffer[1])
         [] size = 2 -> "Recent conversation:\n" \o RenderedTurn(buffer[1])
                            \o RenderedTurn(buffer[2])
         [] OTHER -> "Recent conversation:\n" \o RenderedTurn(buffer[size - 2])
                            \o RenderedTurn(buffer[size - 1])
                            \o RenderedTurn(buffer[size])

\* C21: the recent context is the empty string for an empty buffer, and
\* else the last min(3, size) exchanges, oldest first, each response cut to
\* its first 100 characters; the buffer is as it was.
C21_RecentContext ==
    [][last'.op = "recent" =>
          /\ conversation_history' = conversation_history
          /\ last'.summary = RecentText(conversation_history)
          /\ conversation_history = <<>> => last'.summary = ""]_vars

\* the recent context of a buffer of 4 exchanges leaves out the first one,
\* and cuts a response of 140 characters
C21_Witness_LastThreeOfFour ==
    /\ last.op = "recent"
    /\ Len(conversation_history) = 4
    /\ conversation_history[1].user = "project ideas"
    /\ \A k \in 2..4 : conversation_history[k].user = "health"
    /\ Len(conversation_history[3].ai) = 140
    /\ last.summary = RecentText(conversation_history)
    /\ ~IsSub("project ideas", last.summary)
    /\ ~IsSub(conversation_history[3].ai, last.summary)

\* the inputs of the conversation that are questions: no command, and no
\* request for the details of an id
Questions == {"health", "project ideas"}

RECURSIVE Joined(_)
\* the chunks of a stream, one after the other
Joined(chunks) == IF chunks = <<>> THEN "" ELSE Head(chunks) \o Joined(Tail(chunks))

\* the buffer after the step is the buffer before it with the exchange added
Remembered(exchange) ==
    conversation_history' =
        IF Len(conversation_history) = 10
        THEN Append(Tail(conversation_history), exchange)
        ELSE Append(conversation_history, exchange)

\* C26: a step adds an exchange to the memory exactly when it ends the
\* generation for a question: a chat whose generator answers adds (input,
\* response), the end of a stream adds (input, all chunks of the stream),
\* and every other step (a special command, a failed generation, a chunk of
\* a stream that goes on) leaves the memory as it was.
C26_RememberedOnceWhenAnswered ==
    [][CASE /\ last'.op = "chat"
            /\ streaming' = streaming
            /\ last'.query \in Questions
            /\ last'.gens = <<"ok">> ->
              Remembered([user |-> last'.query, ai |-> last'.summary,
                          timestamp |-> now])
         [] /\ streaming.pc = "streaming"
            /\ streaming'.pc = "idle"
            /\ ~streaming.fails ->
              Remembered([user |-> streaming.user_input,
                          ai |-> Joined(streaming.plan), timestamp |-> now])
         [] OTHER -> conversation_history' = conversation_history]_vars

\* a stream of two chunks with text has ended and its exchange is the last
\* of the memory, after the exchange of a chat
C26_Witness_StreamRemembered ==
    /\ last.op = "streaming"
    /\ last.query = "health"
    /\ ~last.raised
    /\ streaming.pc = "idle"
    /\ streaming.thread # "none"
    /\ Len(conversation_history) = 2
    /\ conversation_history[1] = [user |-> "project ideas", ai |-> "R1", timestamp |-> 0]
    /\ conversation_history[2].user = "health"
    /\ Len(conversation_history[2].ai) = 140

\* the indicator is stopped when the call has ended and when a chunk has
\* been handed on, and it begins at most one sleep once it is stopped
IndicatorStopped ==
    /\ (streaming.pc = "idle" /\ streaming.thread # "none") => streaming.stop_event
    /\ (\E k \in DOMAIN streaming.handed : streaming.handed[k].kind = "chunk")
          => streaming.stop_event
    /\ streaming.late <= 1

\* C25: the stop signal of the indicator is set when the streaming call has
\* ended (at the end of the stream, with or without a chunk, and at a
\* failure) and when a chunk has been handed to the consumer; the thread
\* begins at most one sleep after the signal was set, and it ends.
C25_IndicatorEndsWithCall ==
    /\ []IndicatorStopped
    /\ (streaming.thread # "none" /\ streaming.stop_event) ~> (streaming.thread = "done")

\* the call has ended and the thread, which had tested the signal before it
\* was set, has slept once more and ended
C25_Witness_OneLateSleep ==
    /\ streaming.pc = "idle"
    /\ streaming.stop_event
    /\ streaming.thread = "done"
    /\ streaming.late = 1

====
